---- MODULE Spec2Model ----
(***************************************************************************)
(* Model of tseit_trimmer.py: the transport-packet framer, the section     *)
(* reassembler (SectionCollector), the SDT/EIT table decoders, the time    *)
(* codec and the aggregation done by main.                                 *)
(*                                                                         *)
(* Bytes are integers 0..255, byte strings are sequences of them.  Python  *)
(* indexes from 0, so At(s, i) is s[i] and Slice(s, a, b) is s[a:b] with   *)
(* Python's clamping.  An index past the end raises IndexError in Python;  *)
(* every operation that can raise carries a `raised` flag in its result.   *)
(***************************************************************************)
EXTENDS Integers, Sequences, FiniteSets, TLC

VARIABLES
    buffers,    \* SectionCollector.buffers: insertion-ordered <<[p, tid, buf]>>
    out,        \* the list returned by the last add_packet call
    raised,     \* TRUE iff the last call raised an exception
    exlog,      \* one record per _extract_from_buffer call of the last add_packet
    npk,        \* number of packets fed so far
    last,       \* how the last packet was built (pid, flags, payload, stuffing)
    pre,        \* buffers before the last add_packet call
    sect,       \* split scenario: the section being delivered (repeat: the sections)
    todo,       \* split scenario: the pieces not yet delivered (repeat: the packets)
    emitted,    \* split scenario: concatenated results of all add_packet calls
    solo,       \* delivery scenario: per pid, a collector fed that pid's packets only
    t_in,       \* time codec: the arguments [mjd, hour_bcd, min_bcd, sec_bcd]
    t_out,      \* time codec: what mjd_to_datetime returned
    sec_in,     \* table decoders: the section given to the parser, and how it was built
    parsed,     \* table decoders: what the parser returned
    main_state, \* main: its local variables
    scanned,    \* main: how the packets read so far were built
    pc          \* scenario position

collectorVars == <<buffers, out, raised, exlog, npk, last, pre>>

splitVars == <<sect, todo, emitted, solo>>

timeVars == <<t_in, t_out>>

tableVars == <<sec_in, parsed>>

mainVars == <<main_state, scanned>>

vars == <<collectorVars, splitVars, timeVars, tableVars, mainVars, pc>>

----------------------------------------------------------------------------
(* Program constants *)

TS_PACKET_SIZE == 188
SYNC_BYTE == 71
EIT_PID == 18
EIT_H_PID == 38
PAT_PID == 0
SDT_PID == 17
EIT_M_PID == 39
TOT_PID == 20
PAT_TABLE_ID == 0
SDT_TABLE_ID == 66
EIT_PF_ACTUAL_TABLE_ID == 78
TOT_TABLE_ID == 115
STUFFING == 255

(* Bounds of the model *)

MaxPackets == 2      \* packets fed to one collector in the stream specification
MaxContent == 3      \* free payload bytes chosen per packet
MaxPointer == 1      \* largest pointer_field value chosen
MaxDeclared == 2     \* largest declared section length in the split scenario

----------------------------------------------------------------------------
(* Python sequence semantics *)

Min2(a, b) == IF a <= b THEN a ELSE b

At(s, i) == s[i + 1]

Slice(s, a, b) == SubSeq(s, Min2(a, Len(s)) + 1, Min2(b, Len(s)))

SliceFrom(s, a) == Slice(s, a, Len(s))

Fill(n, b) == [i \in 1..n |-> b]

RECURSIVE Flatten(_)
Flatten(ss) == IF ss = <<>> THEN <<>> ELSE Head(ss) \o Flatten(Tail(ss))

----------------------------------------------------------------------------
(* Utility functions: the time codec *)

\* the fields of a datetime; NoDate stands where the source has None
NoDate == [year |-> 0, month |-> 0, day |-> 0, hour |-> 0, minute |-> 0, second |-> 0]

\* int(x) of a quotient a / b with b > 0: truncation toward zero
TruncDiv(a, b) == IF a >= 0 THEN a \div b ELSE -((-a) \div b)

\* (mutant: the BCD byte taken as a binary number)
bcd_as_binary(bcd) == bcd

bcd_to_decimal(bcd) == ((bcd \div 16) * 10) + (bcd % 16)

IsLeapYear(y) == (y % 4 = 0 /\ y % 100 # 0) \/ y % 400 = 0

DaysInMonth(y, m) ==
    IF m = 2 THEN (IF IsLeapYear(y) THEN 29 ELSE 28)
    ELSE IF m \in {4, 6, 9, 11} THEN 30 ELSE 31

\* datetime(year, month, day, hour, minute, second) raises ValueError unless
\* every field is in range
datetime_valid(year, month, day, hour, minute, second) ==
    /\ year \in 1..9999
    /\ month \in 1..12
    /\ day >= 1 /\ day <= DaysInMonth(year, month)
    /\ hour \in 0..23
    /\ minute \in 0..59
    /\ second \in 0..59

datetime_new(year, month, day, hour, minute, second) ==
    IF datetime_valid(year, month, day, hour, minute, second)
    THEN [exc |-> "", dt |-> [year |-> year, month |-> month, day |-> day,
                              hour |-> hour, minute |-> minute, second |-> second]]
    ELSE [exc |-> "ValueError", dt |-> NoDate]

\* The float expressions of the source, as exact integer arithmetic:
\*   int((mjd - 15078.2) / 365.25)       = TruncDiv(100 mjd - 1507820, 36525)
\*   int(y_prime * 365.25)               = TruncDiv(1461 y_prime, 4)
\*   int((mjd - 14956.1 - yd) / 30.6001) = TruncDiv(10000 (mjd - yd) - 149561000, 306001)
\*   int(m_prime * 30.6001)              = TruncDiv(306001 m_prime, 10000)
\* (the two agree on every 16-bit mjd).  The result is [raised, none, dt]: none
\* is TRUE where the source returns None (the except branch), dt is the datetime.
mjd_to_datetime(mjd, hour_bcd, min_bcd, sec_bcd) ==
    LET hour == bcd_to_decimal(hour_bcd)
        minute == bcd_to_decimal(min_bcd)
        second == bcd_to_decimal(sec_bcd)
        y_prime == TruncDiv((100 * mjd) - 1507820, 36525)
        yd == TruncDiv(1461 * y_prime, 4)
        m_prime == TruncDiv((10000 * (mjd - yd)) - 149561000, 306001)
        day == mjd - 14956 - yd - TruncDiv(306001 * m_prime, 10000)
        k == IF m_prime \in {14, 15} THEN 1 ELSE 0
        year == y_prime + k + 1900
        month == m_prime - 1 - (k * 12)
        made == datetime_new(year, month, day, hour, minute, second)
    IN  IF made.exc = "ValueError"                             \* except ValueError
        THEN [raised |-> FALSE, none |-> TRUE, dt |-> NoDate]
        ELSE [raised |-> made.exc # "", none |-> FALSE, dt |-> made.dt]

----------------------------------------------------------------------------
(* TSPacketUtil *)

get_pid(packet) == ((At(packet, 1) % 32) * 256) + At(packet, 2)

has_payload_start(packet) == (At(packet, 1) \div 64) % 2 = 1

has_adaptation_field(packet) == (At(packet, 3) \div 32) % 2 = 1

get_payload_offset(packet) ==
    IF has_adaptation_field(packet) THEN 4 + 1 + At(packet, 4) ELSE 4

----------------------------------------------------------------------------
(* SectionCollector *)

\* while len(buf) > 0 and buf[0] == 0xFF: del buf[0]
skip_padding(buf) ==
    LET keep == {i \in 1..Len(buf) : buf[i] # STUFFING}
    IN  IF keep = {} THEN <<>>
        ELSE SubSeq(buf, CHOOSE i \in keep : \A j \in keep : i <= j, Len(buf))

\* (mutant: the header counted as 2 bytes)
section_total_len_short(buf) == ((At(buf, 1) % 16) * 256) + At(buf, 2) + 2

section_total_len(buf) == ((At(buf, 1) % 16) * 256) + At(buf, 2) + 3

\* The loop of _extract_from_buffer; `held` records, for each section emitted,
\* how many bytes the buffer held when it was cut off.
RECURSIVE extract_loop(_, _, _)
extract_loop(buf, res, held) ==
    IF Len(buf) >= 3 /\ Len(buf) >= section_total_len(buf)
    THEN extract_loop(skip_padding(SliceFrom(buf, section_total_len(buf))),
                      Append(res, Slice(buf, 0, section_total_len(buf))),
                      Append(held, Len(buf)))
    ELSE [buf |-> buf, res |-> res, held |-> held]

\* (mutant: a complete buffer is returned whole, stuffing included, and cleared)
extract_whole_buffer(buf) ==
    IF Len(buf) >= 3 /\ Len(buf) >= section_total_len(buf)
    THEN [buf |-> <<>>, res |-> <<buf>>, held |-> <<Len(buf)>>]
    ELSE [buf |-> buf, res |-> <<>>, held |-> <<>>]

extract_from_buffer(buf) == extract_loop(buf, <<>>, <<>>)

\* (mutant: the buffer is extended and not drained)
extend_only(b, data) ==
    [entry |-> [b EXCEPT !.buf = b.buf \o data],
     res   |-> <<>>,
     log   |-> <<[p |-> b.p, tid |-> b.tid, before |-> b.buf \o data,
                  after |-> b.buf \o data, res |-> <<>>, held |-> <<>>]>>]

\* buf.extend(data); self._extract_from_buffer(key, complete_sections)
extend_and_extract(b, data) ==
    LET x == extract_from_buffer(b.buf \o data)
    IN  [entry |-> [b EXCEPT !.buf = x.buf],
         res   |-> x.res,
         log   |-> <<[p |-> b.p, tid |-> b.tid, before |-> b.buf \o data,
                      after |-> x.buf, res |-> x.res, held |-> x.held]>>]

\* (mutant: only the first open buffer of the pid gets the data)
deliver_to_first_open(bufs, pid, data) ==
    LET open == {i \in 1..Len(bufs) : bufs[i].p = pid /\ Len(bufs[i].buf) > 0}
        hit(i) == i \in open /\ \A j \in open : i <= j
        step(i) == extend_and_extract(bufs[i], data)
    IN  [buffers |-> [i \in 1..Len(bufs) |-> IF hit(i) THEN step(i).entry ELSE bufs[i]],
         res     |-> Flatten([i \in 1..Len(bufs) |-> IF hit(i) THEN step(i).res ELSE <<>>]),
         log     |-> Flatten([i \in 1..Len(bufs) |-> IF hit(i) THEN step(i).log ELSE <<>>])]

\* (mutant: every open buffer gets the data, whatever its pid)
deliver_to_any_pid(bufs, pid, data) ==
    LET hit(i) == Len(bufs[i].buf) > 0
        step(i) == extend_and_extract(bufs[i], data)
    IN  [buffers |-> [i \in 1..Len(bufs) |-> IF hit(i) THEN step(i).entry ELSE bufs[i]],
         res     |-> Flatten([i \in 1..Len(bufs) |-> IF hit(i) THEN step(i).res ELSE <<>>]),
         log     |-> Flatten([i \in 1..Len(bufs) |-> IF hit(i) THEN step(i).log ELSE <<>>])]

\* for (p, tid), buf in self.buffers.items():
\*     if p == pid and len(buf) > 0: buf.extend(data); self._extract_from_buffer(...)
deliver_to_open(bufs, pid, data) ==
    LET hit(i) == bufs[i].p = pid /\ Len(bufs[i].buf) > 0
        step(i) == extend_and_extract(bufs[i], data)
    IN  [buffers |-> [i \in 1..Len(bufs) |-> IF hit(i) THEN step(i).entry ELSE bufs[i]],
         res     |-> Flatten([i \in 1..Len(bufs) |-> IF hit(i) THEN step(i).res ELSE <<>>]),
         log     |-> Flatten([i \in 1..Len(bufs) |-> IF hit(i) THEN step(i).log ELSE <<>>])]

key_index(bufs, pid, tid) == {i \in 1..Len(bufs) : bufs[i].p = pid /\ bufs[i].tid = tid}

\* (mutant: a key that exists takes no further section)
open_section_once(bufs, pid, new_section_data) ==
    LET table_id == At(new_section_data, 0)
        with == Append(bufs, [p |-> pid, tid |-> table_id, buf |-> <<>>])
        x == extend_and_extract(with[Len(with)], new_section_data)
    IN  IF key_index(bufs, pid, table_id) = {}
        THEN [buffers |-> [with EXCEPT ![Len(with)] = x.entry], res |-> x.res, log |-> x.log]
        ELSE [buffers |-> bufs, res |-> <<>>, log |-> <<>>]

\* (mutant: a unit start replaces what the buffer of its key holds)
open_section_reset(bufs, pid, new_section_data) ==
    LET table_id == At(new_section_data, 0)
        with == IF key_index(bufs, pid, table_id) = {}
                THEN Append(bufs, [p |-> pid, tid |-> table_id, buf |-> <<>>])
                ELSE bufs
        k == CHOOSE i \in key_index(with, pid, table_id) : TRUE
        x == extend_and_extract([with[k] EXCEPT !.buf = <<>>], new_section_data)
    IN  [buffers |-> [with EXCEPT ![k] = x.entry], res |-> x.res, log |-> x.log]

\* add_packet, source lines 830-835: the buffer of key (pid, table_id) is created
\* if absent, extended by the new section's bytes and drained
open_section(bufs, pid, new_section_data) ==
    LET table_id == At(new_section_data, 0)
        with == IF key_index(bufs, pid, table_id) = {}
                THEN Append(bufs, [p |-> pid, tid |-> table_id, buf |-> <<>>])
                ELSE bufs
        k == CHOOSE i \in key_index(with, pid, table_id) : TRUE
        x == extend_and_extract(with[k], new_section_data)
    IN  [buffers |-> [with EXCEPT ![k] = x.entry], res |-> x.res, log |-> x.log]

\* add_packet, source lines 828-835
start_section(bufs, pid, new_section_data) ==
    IF Len(new_section_data) >= 3
    THEN open_section(bufs, pid, new_section_data)
    ELSE [buffers |-> bufs, res |-> <<>>, log |-> <<>>]

\* add_packet once the payload offset is known to lie inside the packet
\* (source lines 813-843); payload[0] raises IndexError on an empty payload
add_packet_payload(bufs, packet) ==
    LET pid == get_pid(packet)
        payload == SliceFrom(packet, get_payload_offset(packet))
        nothing == [buffers |-> bufs, res |-> <<>>, log |-> <<>>]
    IN  IF has_payload_start(packet)
        THEN IF Len(payload) = 0
             THEN [buffers |-> bufs, res |-> <<>>, log |-> <<>>, raised |-> TRUE]
             ELSE LET pointer_field == At(payload, 0)
                      prefix == Slice(payload, 1, 1 + pointer_field)
                      d == IF pointer_field > 0 /\ \E i \in 1..Len(bufs) : bufs[i].p = pid
                           THEN deliver_to_open(bufs, pid, prefix)
                           ELSE nothing
                      s == start_section(d.buffers, pid, SliceFrom(payload, 1 + pointer_field))
                  IN  [buffers |-> s.buffers, res |-> d.res \o s.res,
                       log |-> d.log \o s.log, raised |-> FALSE]
        ELSE LET d == deliver_to_open(bufs, pid, payload)
             IN  [buffers |-> d.buffers, res |-> d.res, log |-> d.log, raised |-> FALSE]

\* (mutant: no check that the payload offset lies inside the packet)
add_packet_noguard(bufs, packet) == add_packet_payload(bufs, packet)

add_packet(bufs, packet) ==
    IF get_payload_offset(packet) >= Len(packet)
    THEN [buffers |-> bufs, res |-> <<>>, log |-> <<>>, raised |-> FALSE]
    ELSE add_packet_payload(bufs, packet)

----------------------------------------------------------------------------
(* Python dict, insertion-ordered: a sequence of [k, v] entries *)

dict_has(d, k) == \E i \in 1..Len(d) : d[i].k = k

dict_get(d, k) == d[CHOOSE i \in 1..Len(d) : d[i].k = k].v

\* d.setdefault(k, v): an existing key keeps its value
dict_setdefault(d, k, v) == IF dict_has(d, k) THEN d ELSE Append(d, [k |-> k, v |-> v])

\* d[k] = v: an existing key keeps its place
dict_set(d, k, v) ==
    IF dict_has(d, k)
    THEN [i \in 1..Len(d) |-> IF d[i].k = k THEN [k |-> k, v |-> v] ELSE d[i]]
    ELSE Append(d, [k |-> k, v |-> v])

dict_keys(d) == [i \in 1..Len(d) |-> d[i].k]

RECURSIVE SortedSeq(_)
SortedSeq(S) ==
    IF S = {} THEN <<>>
    ELSE LET lo == CHOOSE x \in S : \A y \in S : x <= y
         IN  <<lo>> \o SortedSeq(S \ {lo})

\* (mutant: the keys in insertion order)
unsorted_keys(d) == dict_keys(d)

\* sorted(d.keys())
sorted_keys(d) == SortedSeq({d[i].k : i \in 1..Len(d)})

----------------------------------------------------------------------------
(* ARIBStringDecoder.  The character-set decoding is done by ariblib, outside *)
(* this program; the model keeps one character per byte and applies the       *)
(* .strip() of the source.  Empty input gives the empty string.               *)

IsSpace(b) == b \in {9, 10, 11, 12, 13, 32}

strip(t) ==
    LET keep == {i \in 1..Len(t) : ~IsSpace(t[i])}
    IN  IF keep = {} THEN <<>>
        ELSE SubSeq(t, CHOOSE i \in keep : \A j \in keep : i <= j,
                       CHOOSE i \in keep : \A j \in keep : i >= j)

decode(data) == IF data = <<>> THEN <<>> ELSE strip(data)

\* bytes.decode('ascii', errors='ignore')
decode_ascii(data) == SelectSeq(data, LAMBDA b : b < 128)

----------------------------------------------------------------------------
(* Reference tables: the keys of the static dictionaries *)

ARIB_GENRE_LARGE == 0..15

ARIB_GENRE_MIDDLE ==
    [large \in 0..11 |->
        CASE large = 0 -> (0..10) \cup {15}
          [] large = 1 -> (0..10) \cup {15}
          [] large = 2 -> (0..7) \cup {15}
          [] large = 3 -> (0..2) \cup {15}
          [] large = 4 -> (0..10) \cup {15}
          [] large = 5 -> (0..6) \cup {15}
          [] large = 6 -> (0..2) \cup {15}
          [] large = 7 -> (0..2) \cup {15}
          [] large = 8 -> (0..8) \cup {15}
          [] large = 9 -> (0..4) \cup {15}
          [] large = 10 -> (0..12) \cup {15}
          [] large = 11 -> (0..6) \cup {15}]

COMPONENT_TYPE_VIDEO ==
    (1..4) \cup {131} \cup (145..148) \cup (161..164) \cup (177..180)
        \cup (193..196) \cup (209..212) \cup (225..228) \cup (241..244)

COMPONENT_TYPE_AUDIO == (1..17) \cup {64, 65}

Unknown == "unknown"      \* the default name of the lookups

----------------------------------------------------------------------------
(* DescriptorParser *)

parse_service_descriptor(data) ==
    IF Len(data) < 3 THEN [service_name |-> <<>>, provider_name |-> <<>>]
    ELSE LET provider_name_length == At(data, 1)
             provider_name_bytes == Slice(data, 2, 2 + provider_name_length)
             offset == 2 + provider_name_length
         IN  IF offset >= Len(data)
             THEN [service_name |-> <<>>, provider_name |-> <<>>]
             ELSE [service_name |->
                      decode(Slice(data, offset + 1, offset + 1 + At(data, offset))),
                   provider_name |-> decode(provider_name_bytes)]

parse_short_event_descriptor(data) ==
    IF Len(data) < 4 THEN [event_name |-> <<>>, text |-> <<>>]
    ELSE LET event_name_length == At(data, 3)
             event_name_bytes == Slice(data, 4, 4 + event_name_length)
             offset == 4 + event_name_length
         IN  IF offset >= Len(data)
             THEN [event_name |-> <<>>, text |-> <<>>]
             ELSE [event_name |-> decode(event_name_bytes),
                   text |-> decode(Slice(data, offset + 1, offset + 1 + At(data, offset)))]

parse_extended_event_descriptor_raw(data) ==
    IF Len(data) < 6 THEN [item_bytes |-> <<>>, text_bytes |-> <<>>]
    ELSE LET item_len == At(data, 4)
             offset == 5 + item_len
             text_len == IF offset < Len(data) THEN At(data, offset) ELSE 0
         IN  [item_bytes |-> Slice(data, 5, 5 + item_len),
              text_bytes |-> IF text_len > 0
                             THEN Slice(data, offset + 1, offset + 1 + text_len)
                             ELSE <<>>]

\* a combiner that starts a new entry for every tuple
RECURSIVE parse_item_list_nomerge(_, _, _)
parse_item_list_nomerge(item_payload, offset, item_list) ==
    IF offset < Len(item_payload)
    THEN LET name_len == At(item_payload, offset)
             o2 == offset + 1 + name_len
         IN  IF o2 >= Len(item_payload) THEN item_list
             ELSE parse_item_list_nomerge(item_payload, o2 + 1 + At(item_payload, o2),
                     Append(item_list,
                            [name |-> Slice(item_payload, offset + 1, o2),
                             content |-> Slice(item_payload, o2 + 1,
                                               o2 + 1 + At(item_payload, o2))]))
    ELSE item_list

\* the first loop of decode_combined_extended_info: item_list
RECURSIVE parse_item_list(_, _, _)
parse_item_list(item_payload, offset, item_list) ==
    IF offset < Len(item_payload)
    THEN LET name_len == At(item_payload, offset)
             name_bytes == Slice(item_payload, offset + 1, offset + 1 + name_len)
             o2 == offset + 1 + name_len
         IN  IF o2 >= Len(item_payload) THEN item_list
             ELSE LET content_len == At(item_payload, o2)
                      content_bytes == Slice(item_payload, o2 + 1, o2 + 1 + content_len)
                      n == Len(item_list)
                  IN  parse_item_list(item_payload, o2 + 1 + content_len,
                         IF name_len > 0 \/ item_list = <<>>
                         THEN Append(item_list, [name |-> name_bytes, content |-> content_bytes])
                         ELSE [item_list EXCEPT ![n].content = @ \o content_bytes])
    ELSE item_list

RECURSIVE join_lines(_)
join_lines(results) ==
    IF results = <<>> THEN <<>>
    ELSE IF Len(results) = 1 THEN results[1]
    ELSE results[1] \o <<10>> \o join_lines(Tail(results))

decode_combined_extended_info(item_payload, text_payload) ==
    LET item_list == parse_item_list(item_payload, 0, <<>>)
        entry(e) == IF decode(e.name) # <<>>
                    THEN <<91>> \o decode(e.name) \o <<93, 10>> \o decode(e.content)
                    ELSE decode(e.content)
        results == [i \in 1..Len(item_list) |-> entry(item_list[i])]
    IN  join_lines(IF text_payload # <<>> /\ decode(text_payload) # <<>>
                   THEN Append(results, decode(text_payload))
                   ELSE results)

\* the detail record of a type code: the row of the static table it names
component_details(stream_content, component_type) ==
    IF stream_content = 1 /\ component_type \in COMPONENT_TYPE_VIDEO
    THEN [table |-> "video", row |-> component_type]
    ELSE IF stream_content = 2 /\ component_type \in COMPONENT_TYPE_AUDIO
    THEN [table |-> "audio", row |-> component_type]
    ELSE <<>>

\* the empty dict {} is the empty function <<>>
parse_component_descriptor(data) ==
    IF Len(data) < 6 THEN <<>>
    ELSE LET stream_content == At(data, 0) % 16
             component_type == At(data, 1)
             details == component_details(stream_content, component_type)
             result == [stream_content |-> stream_content,
                        component_type |-> component_type,
                        component_tag |-> At(data, 2),
                        language |-> decode_ascii(Slice(data, 3, 6)),
                        text |-> IF Len(data) > 6 THEN decode(SliceFrom(data, 6)) ELSE <<>>]
         IN  IF details # <<>>
             THEN result @@ [details |-> details]
             ELSE result

sampling_rate_text(sampling_rate) ==
    CASE sampling_rate = 1 -> "16kHz"
      [] sampling_rate = 2 -> "22.05kHz"
      [] sampling_rate = 3 -> "24kHz"
      [] sampling_rate = 5 -> "32kHz"
      [] sampling_rate = 6 -> "44.1kHz"
      [] sampling_rate = 7 -> "48kHz"
      [] OTHER -> Unknown

parse_audio_component_descriptor(data) ==
    IF Len(data) < 9 THEN <<>>
    ELSE LET stream_content == At(data, 0) % 16
             component_type == At(data, 1)
             ES_multi_lingual_flag == (At(data, 5) \div 128) % 2 = 1
             main_component_flag == (At(data, 5) \div 64) % 2 = 1
             sampling_rate == (At(data, 5) \div 2) % 8
             offset == IF ES_multi_lingual_flag THEN 12 ELSE 9
         IN  [stream_content |-> stream_content,
              component_type |-> component_type,
              component_tag |-> At(data, 2),
              stream_type |-> At(data, 3),
              language |-> decode_ascii(Slice(data, 6, 9)),
              sampling_rate |-> sampling_rate_text(sampling_rate),
              main_component |-> main_component_flag,
              text |-> IF Len(data) > offset THEN decode(SliceFrom(data, offset)) ELSE <<>>,
              details |-> IF stream_content = 2 /\ component_type \in COMPONENT_TYPE_AUDIO
                          THEN [table |-> "audio", row |-> component_type,
                                sampling |-> sampling_rate_text(sampling_rate)]
                          ELSE <<>>]

\* one 2-byte entry of parse_content_descriptor
genre_info(b) ==
    LET content_nibble_level_1 == (b \div 16) % 16
        content_nibble_level_2 == b % 16
        large == [large_code |-> content_nibble_level_1,
                  large_name |-> IF content_nibble_level_1 \in ARIB_GENRE_LARGE
                                 THEN "large" ELSE Unknown]
    IN  IF content_nibble_level_1 \in DOMAIN ARIB_GENRE_MIDDLE
        THEN large @@
             [middle_code |-> content_nibble_level_2,
              middle_name |->
                 IF content_nibble_level_2 \in ARIB_GENRE_MIDDLE[content_nibble_level_1]
                 THEN "middle" ELSE Unknown]
        ELSE large

RECURSIVE parse_content_descriptor_from(_, _)
parse_content_descriptor_from(data, offset) ==
    IF offset + 2 <= Len(data)
    THEN <<genre_info(At(data, offset))>> \o parse_content_descriptor_from(data, offset + 2)
    ELSE <<>>

parse_content_descriptor(data) == parse_content_descriptor_from(data, 0)

----------------------------------------------------------------------------
(* SDTParser *)

\* the descriptor loop of one service; a read past the end of the section
\* raises IndexError
RECURSIVE sdt_descriptor_loop(_, _, _, _)
sdt_descriptor_loop(section_data, offset, desc_end, names) ==
    IF offset + 2 <= desc_end
    THEN IF offset + 1 >= Len(section_data)
         THEN [names EXCEPT !.raised = TRUE]
         ELSE LET desc_tag == At(section_data, offset)
                  desc_length == At(section_data, offset + 1)
                  o2 == offset + 2
              IN  IF o2 + desc_length > desc_end THEN names
                  ELSE sdt_descriptor_loop(section_data, o2 + desc_length, desc_end,
                          IF desc_tag = 72
                          THEN parse_service_descriptor(
                                   Slice(section_data, o2, o2 + desc_length))
                               @@ [raised |-> FALSE]
                          ELSE names)
    ELSE names

\* (mutant: every service entry is recorded, named or not)
RECURSIVE sdt_service_loop_all(_, _, _)
sdt_service_loop_all(section_data, offset, services) ==
    IF offset + 5 <= Len(section_data) - 4
    THEN LET service_id == At(section_data, offset) * 256 + At(section_data, offset + 1)
             descriptors_loop_length ==
                 (At(section_data, offset + 3) % 16) * 256 + At(section_data, offset + 4)
             desc_end == offset + 5 + descriptors_loop_length
             names == sdt_descriptor_loop(section_data, offset + 5, desc_end,
                         [service_name |-> <<>>, provider_name |-> <<>>, raised |-> FALSE])
         IN  IF names.raised THEN [raised |-> TRUE, services |-> <<>>]
             ELSE sdt_service_loop_all(section_data, desc_end,
                     dict_set(services, service_id,
                              <<names.service_name, names.provider_name>>))
    ELSE [raised |-> FALSE, services |-> services]

RECURSIVE sdt_service_loop(_, _, _)
sdt_service_loop(section_data, offset, services) ==
    IF offset + 5 <= Len(section_data) - 4
    THEN LET service_id == At(section_data, offset) * 256 + At(section_data, offset + 1)
             descriptors_loop_length ==
                 (At(section_data, offset + 3) % 16) * 256 + At(section_data, offset + 4)
             desc_end == offset + 5 + descriptors_loop_length
             names == sdt_descriptor_loop(section_data, offset + 5, desc_end,
                         [service_name |-> <<>>, provider_name |-> <<>>, raised |-> FALSE])
         IN  IF names.raised THEN [raised |-> TRUE, services |-> <<>>]
             ELSE sdt_service_loop(section_data, desc_end,
                     IF names.service_name # <<>>
                     THEN dict_set(services, service_id,
                                   <<names.service_name, names.provider_name>>)
                     ELSE services)
    ELSE [raised |-> FALSE, services |-> services]

parse_sdt_section(section_data) ==
    IF Len(section_data) < 11 THEN [raised |-> FALSE, services |-> <<>>]
    ELSE sdt_service_loop(section_data, 11, <<>>)

----------------------------------------------------------------------------
(* EITParser *)

\* the branch of the descriptor loop taken for one descriptor
eit_descriptor(ev, desc_tag, desc_data) ==
    CASE desc_tag = 77 ->
            LET r == parse_short_event_descriptor(desc_data)
            IN  [ev EXCEPT !.title = r.event_name, !.description = r.text]
      [] desc_tag = 78 ->
            LET desc_num == (At(desc_data, 0) \div 16) % 16
                r == parse_extended_event_descriptor_raw(desc_data)
            IN  [ev EXCEPT !.ext_items_raw = dict_set(@, desc_num, r.item_bytes),
                           !.ext_texts_raw = dict_set(@, desc_num, r.text_bytes)]
      [] desc_tag = 84 ->
            [ev EXCEPT !.genres = parse_content_descriptor(desc_data)]
      [] desc_tag = 80 ->
            [ev EXCEPT !.components = Append(@, parse_component_descriptor(desc_data))]
      [] desc_tag = 196 ->
            [ev EXCEPT !.components =
                          Append(@, parse_audio_component_descriptor(desc_data))]
      [] OTHER -> ev

\* the descriptor loop of one event; section_data[offset], section_data[offset + 1]
\* and desc_data[0] raise IndexError when the index is past the end
RECURSIVE eit_descriptor_loop(_, _, _, _)
eit_descriptor_loop(section_data, offset, desc_end, ev) ==
    IF offset + 2 <= desc_end
    THEN IF offset + 1 >= Len(section_data)
         THEN [ev EXCEPT !.raised = TRUE]
         ELSE LET desc_tag == At(section_data, offset)
                  desc_length == At(section_data, offset + 1)
                  desc_data == Slice(section_data, offset + 2, offset + 2 + desc_length)
              IN  IF desc_tag = 78 /\ desc_data = <<>>
                  THEN [ev EXCEPT !.raised = TRUE]
                  ELSE eit_descriptor_loop(section_data, offset + 2 + desc_length,
                          desc_end, eit_descriptor(ev, desc_tag, desc_data))
    ELSE ev

\* b"".join([d[k] for k in sorted(d.keys())])
join_sorted(d) ==
    LET keys == sorted_keys(d)
    IN  Flatten([i \in 1..Len(keys) |-> dict_get(d, keys[i])])

\* `combined` logs, per event, the bytes handed to decode_combined_extended_info
RECURSIVE eit_event_loop(_, _, _, _)
eit_event_loop(section_data, offset, events, combined) ==
    IF offset + 12 <= Len(section_data) - 4
    THEN LET event_id == At(section_data, offset) * 256 + At(section_data, offset + 1)
             start_mjd == At(section_data, offset + 2) * 256 + At(section_data, offset + 3)
             t == mjd_to_datetime(start_mjd, At(section_data, offset + 4),
                                  At(section_data, offset + 5), At(section_data, offset + 6))
             duration_bcd == Slice(section_data, offset + 7, offset + 10)
             duration_min == bcd_to_decimal(duration_bcd[1]) * 60
                                + bcd_to_decimal(duration_bcd[2])
             descriptors_loop_length ==
                 (At(section_data, offset + 10) % 16) * 256 + At(section_data, offset + 11)
             desc_end == offset + 12 + descriptors_loop_length
             ev == eit_descriptor_loop(section_data, offset + 12, desc_end,
                      [title |-> <<>>, description |-> <<>>, genres |-> <<>>,
                       components |-> <<>>, ext_items_raw |-> <<>>,
                       ext_texts_raw |-> <<>>, raised |-> FALSE])
             combined_items == join_sorted(ev.ext_items_raw)
             combined_texts == join_sorted(ev.ext_texts_raw)
         IN  IF ev.raised THEN [raised |-> TRUE, events |-> <<>>, combined |-> combined]
             ELSE eit_event_loop(section_data, desc_end,
                     Append(events,
                        [event_id |-> event_id,
                         start_time |-> [none |-> t.none, dt |-> t.dt],
                         duration_min |-> duration_min,
                         title |-> ev.title,
                         description |-> ev.description,
                         extended_info |->
                            decode_combined_extended_info(combined_items, combined_texts),
                         genres |-> ev.genres,
                         components |-> ev.components]),
                     Append(combined, [items |-> combined_items, texts |-> combined_texts]))
    ELSE [raised |-> FALSE, events |-> events, combined |-> combined]

parse_eit_section(section_data) ==
    IF Len(section_data) < 14
    THEN [raised |-> FALSE, events |-> <<>>, combined |-> <<>>]
    ELSE eit_event_loop(section_data, 14, <<>>, <<>>)

----------------------------------------------------------------------------
(* Table parsers used by main *)

RECURSIVE pat_program_loop(_, _, _)
pat_program_loop(section_data, offset, service_ids) ==
    IF offset + 4 <= Len(section_data) - 4
    THEN LET program_number == At(section_data, offset) * 256 + At(section_data, offset + 1)
         IN  pat_program_loop(section_data, offset + 4,
                IF program_number # 0 THEN Append(service_ids, program_number)
                ELSE service_ids)
    ELSE service_ids

parse_pat_section(section_data) ==
    IF Len(section_data) < 8 THEN <<>> ELSE pat_program_loop(section_data, 8, <<>>)

\* [none, dt]: none is TRUE where the source returns None
parse_tot(packet) ==
    LET nothing == [none |-> TRUE, dt |-> NoDate]
        offset == get_payload_offset(packet)
    IN  IF get_pid(packet) # TOT_PID THEN nothing
        ELSE IF ~has_payload_start(packet) THEN nothing
        ELSE IF offset >= Len(packet) THEN nothing
        ELSE LET o2 == offset + 1 + At(packet, offset)
             IN  IF o2 + 8 > Len(packet) THEN nothing
                 ELSE IF At(packet, o2) # TOT_TABLE_ID THEN nothing
                 ELSE LET t == mjd_to_datetime(
                                  At(packet, o2 + 3) * 256 + At(packet, o2 + 4),
                                  At(packet, o2 + 5), At(packet, o2 + 6), At(packet, o2 + 7))
                      IN  [none |-> t.none, dt |-> t.dt]

----------------------------------------------------------------------------
(* main.  main_state holds main's local variables; status is "scanning" in   *)
(* the read loop, then "done", "exit1" (sys.exit(1)) or "raised" (an         *)
(* exception left main).  A datetime is compared and shifted as a pair of    *)
(* day number and second of the day.                                         *)

\* date.toordinal(): days since 0001-01-01, plus one
datetime_toordinal(dt) ==
    LET y == dt.year - 1
        before_month == ((367 * dt.month - 362) \div 12)
                           - (IF dt.month <= 2 THEN 0
                              ELSE IF IsLeapYear(dt.year) THEN 1 ELSE 2)
    IN  (365 * y) + (y \div 4) - (y \div 100) + (y \div 400) + before_month + dt.day

\* a datetime as a day number and the second within the day
datetime_stamp(dt) ==
    [days |-> datetime_toordinal(dt),
     seconds |-> (dt.hour * 3600) + (dt.minute * 60) + dt.second]

\* t + timedelta(seconds=n), n >= 0
stamp_add(t, n) ==
    [days |-> t.days + ((t.seconds + n) \div 86400), seconds |-> (t.seconds + n) % 86400]

stamp_le(a, b) == a.days < b.days \/ (a.days = b.days /\ a.seconds <= b.seconds)

stamp_lt(a, b) == a.days < b.days \/ (a.days = b.days /\ a.seconds < b.seconds)

\* the state of main before the read loop, for the given command line
main_start(args) ==
    [args |-> args,
     pat_collector |-> <<>>, sdt_collector |-> <<>>, eit_collector |-> <<>>,
     service_id_order |-> <<>>, services |-> <<>>, events_by_service |-> <<>>,
     target_time |-> [none |-> TRUE, at |-> [days |-> 0, seconds |-> 0]],
     need_tot |-> ~args.offset.none,
     packet_count |-> 0, tot_found |-> FALSE,
     service_list |-> <<>>, status |-> "scanning"]

RECURSIVE pat_sections(_, _)
pat_sections(ms, sections) ==
    IF sections = <<>> THEN ms
    ELSE LET section == Head(sections)
         IN  pat_sections(
                IF Len(section) > 0 /\ At(section, 0) = PAT_TABLE_ID
                     /\ ms.service_id_order = <<>>
                THEN [ms EXCEPT !.service_id_order = parse_pat_section(section)]
                ELSE ms,
                Tail(sections))

\* (mutant: a key that exists keeps its value)
RECURSIVE dict_update_first(_, _)
dict_update_first(d, other) ==
    IF other = <<>> THEN d
    ELSE dict_update_first(dict_setdefault(d, Head(other).k, Head(other).v), Tail(other))

\* dict.update
RECURSIVE dict_update(_, _)
dict_update(d, other) ==
    IF other = <<>> THEN d
    ELSE dict_update(dict_set(d, Head(other).k, Head(other).v), Tail(other))

\* services.update(parsed_services); an exception of the parser leaves main
services_update(ms, parsed_services) ==
    IF parsed_services.raised THEN [ms EXCEPT !.status = "raised"]
    ELSE [ms EXCEPT !.services = dict_update(@, parsed_services.services)]

RECURSIVE sdt_sections(_, _)
sdt_sections(ms, sections) ==
    IF sections = <<>> \/ ms.status = "raised" THEN ms
    ELSE sdt_sections(
            IF Len(Head(sections)) > 0 /\ At(Head(sections), 0) = SDT_TABLE_ID
            THEN services_update(ms, parse_sdt_section(Head(sections)))
            ELSE ms,
            Tail(sections))

\* events_by_service[service_id].extend(parsed_events), the list created when
\* the key is new; an exception of the parser leaves main
events_extend(ms, service_id, parsed_events) ==
    IF parsed_events.raised THEN [ms EXCEPT !.status = "raised"]
    ELSE [ms EXCEPT !.events_by_service =
             IF dict_has(@, service_id)
             THEN dict_set(@, service_id, dict_get(@, service_id) \o parsed_events.events)
             ELSE dict_set(@, service_id, parsed_events.events)]

RECURSIVE eit_sections(_, _)
eit_sections(ms, sections) ==
    IF sections = <<>> \/ ms.status = "raised" THEN ms
    ELSE eit_sections(
            IF Len(Head(sections)) > 8
                 /\ (ms.args.all_events \/ ms.need_tot
                       \/ At(Head(sections), 0) = EIT_PF_ACTUAL_TABLE_ID)
            THEN events_extend(ms, At(Head(sections), 3) * 256 + At(Head(sections), 4),
                               parse_eit_section(Head(sections)))
            ELSE ms,
            Tail(sections))

\* what main does with r, the outcome of add_packet on the collector of `table`
collected(ms, table, r) ==
    IF r.raised THEN [ms EXCEPT !.status = "raised"]
    ELSE IF table = "pat"
    THEN pat_sections([ms EXCEPT !.pat_collector = r.buffers], r.res)
    ELSE IF table = "sdt"
    THEN sdt_sections([ms EXCEPT !.sdt_collector = r.buffers], r.res)
    ELSE eit_sections([ms EXCEPT !.eit_collector = r.buffers], r.res)

\* the PAT / SDT / EIT branches of the read loop
route_packet(ms, pid, packet) ==
    IF pid = PAT_PID THEN collected(ms, "pat", add_packet(ms.pat_collector, packet))
    ELSE IF pid = SDT_PID THEN collected(ms, "sdt", add_packet(ms.sdt_collector, packet))
    ELSE IF pid \in {EIT_PID, EIT_H_PID, EIT_M_PID}
    THEN collected(ms, "eit", add_packet(ms.eit_collector, packet))
    ELSE ms

\* the TOT branch of the read loop, tot_time being what parse_tot returned
tot_branch(ms, tot_time) ==
    IF ~tot_time.none
    THEN [ms EXCEPT !.target_time =
                       [none |-> FALSE,
                        at |-> stamp_add(datetime_stamp(tot_time.dt),
                                         ms.args.offset.seconds)],
                    !.tot_found = TRUE,
                    !.pat_collector = <<>>,
                    !.sdt_collector = <<>>,
                    !.eit_collector = <<>>,
                    !.packet_count = @ + 1]
    ELSE [ms EXCEPT !.packet_count = @ + 1]

\* the end of one pass: packet_count += 1 and the early-exit test
count_packet(routed, early_exit_threshold) ==
    IF routed.status = "raised" THEN routed
    ELSE [routed EXCEPT
            !.packet_count = @ + 1,
            !.status = IF routed.services # <<>> /\ routed.events_by_service # <<>>
                            /\ routed.packet_count + 1 > early_exit_threshold
                       THEN "stopped" ELSE @]

\* one pass of the read loop over a 188-byte packet; "stopped" is the state
\* after the early-exit break
scan_packet(ms, packet) ==
    IF At(packet, 0) # SYNC_BYTE THEN ms
    ELSE IF ms.need_tot /\ ms.target_time.none THEN tot_branch(ms, parse_tot(packet))
    ELSE IF ms.need_tot /\ ~ms.tot_found THEN [ms EXCEPT !.packet_count = @ + 1]
    ELSE count_packet(route_packet(ms, get_pid(packet), packet),
                      IF ms.need_tot THEN 200000 ELSE 50000)

\* (mutant: of the events sharing an id, the last one is kept)
RECURSIVE unique_events_last(_)
unique_events_last(events) ==
    IF events = <<>> THEN <<>>
    ELSE IF \E i \in 2..Len(events) : events[i].event_id = Head(events).event_id
         THEN unique_events_last(Tail(events))
         ELSE <<Head(events)>> \o unique_events_last(Tail(events))

\* the seen_event_ids loop: events whose id did not occur before
unique_events_of(events) ==
    LET kept == SortedSeq({i \in 1..Len(events) :
                             \A j \in 1..(i - 1) : events[j].event_id # events[i].event_id})
    IN  [k \in 1..Len(kept) |-> events[kept[k]]]

\* start_time <= target_time < end_time
on_air(event, target_time) ==
    /\ stamp_le(datetime_stamp(event.start_time.dt), target_time.at)
    /\ stamp_lt(target_time.at,
                stamp_add(datetime_stamp(event.start_time.dt), event.duration_min * 60))

\* the print loop over unique_events[:5] and the service_list.append;
\* start_time + timedelta(...) raises TypeError when start_time is None
listed_entry(sid, names, unique_events) ==
    IF \E i \in 1..Len(unique_events) : i <= 5 /\ unique_events[i].start_time.none
    THEN [raised |-> TRUE, entries |-> <<>>]
    ELSE [raised |-> FALSE,
          entries |-> IF unique_events # <<>>
                      THEN <<[sid |-> sid, service_name |-> names[1],
                              provider_name |-> names[2],
                              events |-> Slice(unique_events, 0, 5)]>>
                      ELSE <<>>]

\* the --offset filter, then the listing; the filter computes
\* start_time + timedelta(...) for every event
filtered_entry(ms, sid, names, unique_events) ==
    IF ms.target_time.none THEN listed_entry(sid, names, unique_events)
    ELSE IF \E i \in 1..Len(unique_events) : unique_events[i].start_time.none
    THEN [raised |-> TRUE, entries |-> <<>>]
    ELSE listed_entry(sid, names,
                      SelectSeq(unique_events, LAMBDA e : on_air(e, ms.target_time)))

\* the body of the per-service loop: what it appends to service_list
service_entry(ms, sid, names) ==
    filtered_entry(ms, sid, names,
                   unique_events_of(IF dict_has(ms.events_by_service, sid)
                                    THEN dict_get(ms.events_by_service, sid) ELSE <<>>))

\* the effect of one pass of the per-service loop on main's state
service_append(ms, r) ==
    IF r.raised THEN [ms EXCEPT !.status = "raised"]
    ELSE [ms EXCEPT !.service_list = @ \o r.entries]

\* for sid, names in sorted(filtered_services.items()), from the index-th on
RECURSIVE service_loop_from(_, _, _)
service_loop_from(ms, items, index) ==
    IF ms.status = "raised" THEN ms
    ELSE IF index > Len(items) THEN [ms EXCEPT !.status = "done"]
    ELSE service_loop_from(
            service_append(ms, service_entry(ms, items[index].k, items[index].v)),
            items, index + 1)

\* sorted(d.items()): the entries by ascending key
sorted_items(d) ==
    [i \in 1..Len(d) |->
        d[CHOOSE j \in 1..Len(d) : Cardinality({n \in 1..Len(d) : d[n].k < d[j].k}) = i - 1]]

service_loop(ms, filtered_services, service_list) ==
    service_loop_from([ms EXCEPT !.service_list = service_list],
                      sorted_items(filtered_services), 1)

\* the services main reports: --sid, --all-services or the main service
filtered_services_of(ms) ==
    LET in_pat == {i \in 1..Len(ms.service_id_order) :
                      dict_has(ms.services, ms.service_id_order[i])}
        main_sid == IF in_pat # {}
                    THEN ms.service_id_order[CHOOSE i \in in_pat : \A j \in in_pat : i <= j]
                    ELSE ms.services[1].k
    IN  IF ms.args.sid # 0
        THEN <<[k |-> ms.args.sid, v |-> dict_get(ms.services, ms.args.sid)]>>
        ELSE IF ms.args.all_services THEN ms.services
        ELSE <<[k |-> main_sid, v |-> dict_get(ms.services, main_sid)]>>

\* main after the read loop
report(ms) ==
    IF ms.services = <<>> THEN [ms EXCEPT !.status = "exit1"]
    ELSE IF ms.need_tot /\ ms.target_time.none THEN [ms EXCEPT !.status = "exit1"]
    ELSE IF ms.args.sid # 0 /\ ~dict_has(ms.services, ms.args.sid)
    THEN [ms EXCEPT !.status = "exit1"]
    ELSE service_loop(ms, filtered_services_of(ms), <<>>)

----------------------------------------------------------------------------
(* The packets the collector is fed *)

\* A 188-byte packet carrying `payload`: either followed by 0xFF stuffing up to
\* the packet end (stuff = TRUE), or preceded by an adaptation field that
\* leaves exactly Len(payload) bytes of payload (stuff = FALSE).
MakePacket(pid, pusi, payload, stuff) ==
    LET b1 == (IF pusi THEN 64 ELSE 0) + (pid \div 256)
        b2 == pid % 256
    IN  IF stuff
        THEN <<SYNC_BYTE, b1, b2, 16>> \o payload
               \o Fill(TS_PACKET_SIZE - 4 - Len(payload), STUFFING)
        ELSE <<SYNC_BYTE, b1, b2, 48, TS_PACKET_SIZE - 5 - Len(payload)>>
               \o Fill(TS_PACKET_SIZE - 5 - Len(payload), STUFFING) \o payload

\* A packet whose adaptation field (of declared length af_len) leaves no payload.
MakeAdaptationOnlyPacket(pid, pusi, af_len) ==
    <<SYNC_BYTE, (IF pusi THEN 64 ELSE 0) + (pid \div 256), pid % 256, 32, af_len>>
        \o Fill(TS_PACKET_SIZE - 5, STUFFING)

Pids == {EIT_PID, EIT_H_PID}

ContentBytes == {0, 1, STUFFING}

RECURSIVE SeqsUpTo(_, _)
SeqsUpTo(S, n) ==
    IF n = 0 THEN {<<>>}
    ELSE LET shorter == SeqsUpTo(S, n - 1)
         IN  shorter \cup {Append(s, b) : s \in {t \in shorter : Len(t) = n - 1}, b \in S}

Contents == SeqsUpTo(ContentBytes, MaxContent)

FeedPacket(packet, pid, pusi, payload, stuff) ==
    LET r == add_packet(buffers, packet)
    IN  /\ buffers' = r.buffers
        /\ out' = r.res
        /\ raised' = r.raised
        /\ exlog' = r.log
        /\ npk' = npk + 1
        /\ pre' = buffers
        /\ last' = [pid |-> pid, pusi |-> pusi, payload |-> payload, stuff |-> stuff]

Feed(pid, pusi, payload, stuff) ==
    FeedPacket(MakePacket(pid, pusi, payload, stuff), pid, pusi, payload, stuff)

----------------------------------------------------------------------------
(* The parts of the state a specification does not use stay at these values *)

NoPacket == [pid |-> 0, pusi |-> FALSE, payload |-> <<>>, stuff |-> FALSE]

CollectorFresh ==
    /\ buffers = <<>>
    /\ out = <<>>
    /\ raised = FALSE
    /\ exlog = <<>>
    /\ npk = 0
    /\ last = NoPacket
    /\ pre = <<>>

SplitIdle == sect = <<>> /\ todo = <<>> /\ emitted = <<>> /\ solo = <<>>

TimeIdle == t_in = <<>> /\ t_out = <<>>

TableIdle == sec_in = <<>> /\ parsed = <<>>

MainIdle == main_state = <<>> /\ scanned = <<>>

----------------------------------------------------------------------------
(* Stream specification: any bounded sequence of packets into one collector. *)
(* The caller (main) consumes the returned list before it reads the next     *)
(* packet.                                                                   *)

StreamInit ==
    CollectorFresh /\ SplitIdle /\ TimeIdle /\ TableIdle /\ MainIdle /\ pc = "idle"

\* A unit-start packet: pointer_field, then as many prefix bytes as the pointer
\* says (none when the payload ends right after the pointer), then the bytes of
\* the new section.
UnitStartPacket ==
    /\ pc = "idle"
    /\ npk < MaxPackets
    /\ \E pid \in Pids, ptr \in 0..MaxPointer, stuff \in BOOLEAN :
       \E prefix \in {c \in Contents : Len(c) = ptr \/ c = <<>>}, c \in Contents :
           /\ Len(prefix) < ptr => c = <<>>
           /\ Feed(pid, TRUE, <<ptr>> \o prefix \o c, stuff)
    /\ pc' = "returned"
    /\ UNCHANGED <<splitVars, timeVars, tableVars, mainVars>>

ContinuationPacket ==
    /\ pc = "idle"
    /\ npk < MaxPackets
    /\ \E pid \in Pids, c \in Contents, stuff \in BOOLEAN :
           Feed(pid, FALSE, c, stuff)
    /\ pc' = "returned"
    /\ UNCHANGED <<splitVars, timeVars, tableVars, mainVars>>

\* A packet that is all adaptation field (af_len 183), or whose adaptation-field
\* length byte points past the packet end (255).
AdaptationOnlyPacket ==
    /\ pc = "idle"
    /\ npk < MaxPackets
    /\ \E pid \in Pids, pusi \in BOOLEAN, af_len \in {TS_PACKET_SIZE - 5, 255} :
           FeedPacket(MakeAdaptationOnlyPacket(pid, pusi, af_len), pid, pusi, <<>>, FALSE)
    /\ pc' = "returned"
    /\ UNCHANGED <<splitVars, timeVars, tableVars, mainVars>>

\* main's `for section in sections:` loop has run; the next packet is read.
ConsumeSections ==
    /\ pc = "returned"
    /\ pc' = "idle"
    /\ out' = <<>>
    /\ raised' = FALSE
    /\ exlog' = <<>>
    /\ last' = NoPacket
    /\ pre' = <<>>
    /\ UNCHANGED <<buffers, npk, splitVars, timeVars, tableVars, mainVars>>

StreamNext ==
    UnitStartPacket \/ ContinuationPacket \/ AdaptationOnlyPacket \/ ConsumeSections

SpecStream == StreamInit /\ [][StreamNext]_vars

----------------------------------------------------------------------------
(* Split specification: one complete section, cut into consecutive non-empty *)
(* pieces, is delivered to a fresh collector: the first piece in a           *)
(* unit-start packet with pointer 0, the others in continuation packets.     *)
(* Every piece fills its packet's payload exactly (the rest of the packet is *)
(* adaptation field); the last one may instead be followed by 0xFF stuffing. *)

SplitTableIds == {66, 78}            \* SDT_TABLE_ID, EIT_PF_ACTUAL_TABLE_ID

SplitBodyBytes == {7, STUFFING}

SplitSections ==
    {<<tid, b1, Len(body)>> \o body :
        tid \in SplitTableIds, b1 \in {0, 240},
        body \in SeqsUpTo(SplitBodyBytes, MaxDeclared)}

\* the ways of writing n as an ordered sum of positive piece lengths
RECURSIVE Compositions(_)
Compositions(n) ==
    IF n = 0 THEN {<<>>}
    ELSE UNION {{<<k>> \o c : c \in Compositions(n - k)} : k \in 1..n}

RECURSIVE CutAt(_, _)
CutAt(s, lens) ==
    IF lens = <<>> THEN <<>>
    ELSE <<SubSeq(s, 1, Head(lens))>>
            \o CutAt(SubSeq(s, Head(lens) + 1, Len(s)), Tail(lens))

SplitInit ==
    /\ CollectorFresh
    /\ TimeIdle
    /\ TableIdle
    /\ MainIdle
    /\ emitted = <<>>
    /\ solo = <<>>
    /\ pc = "first"
    /\ sect \in SplitSections
    /\ \E lens \in Compositions(Len(sect)), stuff \in BOOLEAN :
           todo = [pieces |-> CutAt(sect, lens), stuff |-> stuff]

SplitAfter ==
    /\ emitted' = emitted \o out'
    /\ todo' = [todo EXCEPT !.pieces = Tail(todo.pieces)]
    /\ pc' = IF Len(todo.pieces) = 1 THEN "done" ELSE "rest"
    /\ UNCHANGED <<sect, solo, timeVars, tableVars, mainVars>>

FeedFirstPiece ==
    /\ pc = "first"
    /\ Feed(EIT_PID, TRUE, <<0>> \o Head(todo.pieces),
            todo.stuff /\ Len(todo.pieces) = 1)
    /\ SplitAfter

FeedNextPiece ==
    /\ pc = "rest"
    /\ Feed(EIT_PID, FALSE, Head(todo.pieces), todo.stuff /\ Len(todo.pieces) = 1)
    /\ SplitAfter

SplitNext == FeedFirstPiece \/ FeedNextPiece

SpecSplit == SplitInit /\ [][SplitNext]_vars

----------------------------------------------------------------------------
(* Claims about the section reassembler *)

\* 3 + the 12-bit length declared in bytes 2 and 3 of a section (1-based s[2], s[3])
DeclaredTotal(s) == 3 + ((s[2] % 16) * 256) + s[3]

IsCompleteSection(s) == Len(s) >= 3 /\ Len(s) = DeclaredTotal(s)

\* the bytes pending in `bufs` for key (pid, tid); empty when the key is absent
Pending(bufs, pid, tid) ==
    Flatten([i \in 1..Len(bufs) |->
                IF bufs[i].p = pid /\ bufs[i].tid = tid THEN bufs[i].buf ELSE <<>>])

NoPendingFor(bufs, pid) == \A i \in 1..Len(bufs) : bufs[i].p = pid => bufs[i].buf = <<>>

\* the last packet was a unit start with pointer 0 whose payload is one complete
\* section followed only by 0xFF stuffing up to the packet end
WholeSectionPacket ==
    /\ pc = "returned"
    /\ last.pusi
    /\ last.stuff
    /\ Len(last.payload) >= 4
    /\ last.payload[1] = 0
    /\ IsCompleteSection(Tail(last.payload))

\* C1 (split invariance, as claimed): however a complete section is cut into
\* consecutive non-empty pieces, a fresh collector fed the pieces (unit start
\* with pointer 0, then continuations) has returned exactly that one section
\* once the last piece is in, also when the first piece has 1 or 2 bytes.
C1_SplitInvariance == pc = "done" => emitted = <<sect>>

\* C2 (reassembly idempotence): with no bytes pending for the packet's pid, a
\* unit-start packet with pointer 0 whose payload is one complete section and
\* then only stuffing makes add_packet return exactly that section.
C2_Idempotence ==
    (WholeSectionPacket /\ NoPendingFor(pre, last.pid))
        => out = <<Tail(last.payload)>>

\* the case of C2 reached from a collector that already has keys
C2_Witness ==
    /\ WholeSectionPacket
    /\ NoPendingFor(pre, last.pid)
    /\ pre # <<>>
    /\ out = <<Tail(last.payload)>>

\* C3 (padding exclusion, as claimed): the stuffing after a complete section is
\* neither returned inside a section nor kept in a buffer, where it would sit
\* behind an unfinished section and be part of what that buffer returns next:
\* what the call returns plus what the section's buffer keeps is exactly what
\* the buffer held before plus the section.
C3_PaddingExcluded ==
    WholeSectionPacket =>
        LET S == Tail(last.payload)
        IN  Flatten(out) \o Pending(buffers, last.pid, S[1])
                = Pending(pre, last.pid, S[1]) \o S

\* C4 (emission invariant): every section returned was cut from the front of a
\* buffer that held at least its declared total, and is exactly 3 + its
\* declared 12-bit length long.
C4_Emission ==
    /\ \A i \in 1..Len(out) : Len(out[i]) >= 3 /\ Len(out[i]) = DeclaredTotal(out[i])
    /\ out = Flatten([i \in 1..Len(exlog) |-> exlog[i].res])
    /\ \A i \in 1..Len(exlog) :
        /\ Len(exlog[i].held) = Len(exlog[i].res)
        /\ \A j \in 1..Len(exlog[i].res) : exlog[i].held[j] >= Len(exlog[i].res[j])
        /\ exlog[i].res # <<>> =>
              exlog[i].res[1] = SubSeq(exlog[i].before, 1, Len(exlog[i].res[1]))

\* a call that returned a section from a buffer holding more than the section
C4_Witness ==
    /\ pc = "returned"
    /\ \E i \in 1..Len(exlog) :
          exlog[i].res # <<>> /\ exlog[i].held[1] > Len(exlog[i].res[1])

\* C9 (add_packet is total): no call raises, and a buffer holding fewer bytes
\* than its declared total yields no section and keeps its bytes.
C9_Total ==
    /\ ~raised
    /\ \A i \in 1..Len(exlog) :
          (Len(exlog[i].before) < 3 \/ Len(exlog[i].before) < DeclaredTotal(exlog[i].before))
              => (exlog[i].res = <<>> /\ exlog[i].after = exlog[i].before)

\* a call that found a buffer short of its declared total and returned nothing
C9_Witness ==
    /\ pc = "returned"
    /\ ~raised
    /\ out = <<>>
    /\ \E i \in 1..Len(exlog) :
          /\ Len(exlog[i].before) >= 3
          /\ Len(exlog[i].before) < DeclaredTotal(exlog[i].before)
          /\ exlog[i].after = exlog[i].before

----------------------------------------------------------------------------
(* Time specification: mjd_to_datetime applied once to a 16-bit day count and *)
(* three time bytes.                                                          *)

Mjds == 0..65535

\* day counts tried with every sampled time: the first and last 16-bit values,
\* the last day the conversion formula misplaces (1900-02-31), the first it
\* places right, a leap day and the reference 2020-01-01
MjdSamples == {0, 15078, 15079, 51603, 58849, 65535}

\* time bytes: digits in range, the largest valid fields, the first invalid
\* ones, and nibbles above 9
TimeBytes == {0, 9, 10, 25, 35, 36, 42, 89, 90, 96, 153, 255}

TimeInit ==
    /\ CollectorFresh
    /\ SplitIdle
    /\ TableIdle
    /\ MainIdle
    /\ pc = "time"
    /\ t_out = <<>>
    /\ \/ \E mjd \in Mjds : t_in = [mjd |-> mjd, h |-> 0, m |-> 0, s |-> 0]
       \/ \E mjd \in MjdSamples, h \in TimeBytes, m \in TimeBytes, s \in TimeBytes :
             t_in = [mjd |-> mjd, h |-> h, m |-> m, s |-> s]

DecodeTime ==
    /\ pc = "time"
    /\ t_out' = mjd_to_datetime(t_in.mjd, t_in.h, t_in.m, t_in.s)
    /\ pc' = "decoded"
    /\ UNCHANGED <<collectorVars, splitVars, tableVars, mainVars, t_in>>

TimeNext == DecodeTime

SpecTime == TimeInit /\ [][TimeNext]_vars

----------------------------------------------------------------------------
(* Claims about the time codec *)

\* one decimal digit per nibble
NibbleDecimal(b) == (10 * (b \div 16)) + (b % 16)

\* the day count of a Gregorian calendar date (days since 1858-11-17)
RECURSIVE DaysBeforeYear(_)
DaysBeforeYear(y) ==
    IF y = 1858 THEN 0
    ELSE DaysBeforeYear(y - 1) + (IF IsLeapYear(y - 1) THEN 366 ELSE 365)

RECURSIVE DaysBeforeMonth(_, _)
DaysBeforeMonth(y, m) ==
    IF m = 1 THEN 0 ELSE DaysBeforeMonth(y, m - 1) + DaysInMonth(y, m - 1)

DayCountOf(y, m, d) == DaysBeforeYear(y) + DaysBeforeMonth(y, m) + (d - 1) - 320

\* C10 (time codec): the day count 58849 with all-zero time bytes decodes to
\* 2020-01-01T00:00:00; no input makes mjd_to_datetime raise; a time byte whose
\* nibble-wise value is out of range (hour > 23, minute or second > 59) gives
\* none; every timestamp returned has in-range calendar fields and the
\* nibble-wise time fields; and from 1900-03-01 on (day count 15079) a valid
\* time always yields the timestamp of that day.
C10_TimeCodec ==
    pc = "decoded" =>
        LET hh == NibbleDecimal(t_in.h)
            mm == NibbleDecimal(t_in.m)
            ss == NibbleDecimal(t_in.s)
            v == t_out.dt
        IN  /\ ~t_out.raised
            /\ (t_in = [mjd |-> 58849, h |-> 0, m |-> 0, s |-> 0]) =>
                  /\ ~t_out.none
                  /\ v = [year |-> 2020, month |-> 1, day |-> 1,
                          hour |-> 0, minute |-> 0, second |-> 0]
            /\ (hh > 23 \/ mm > 59 \/ ss > 59) => t_out.none
            /\ ~t_out.none =>
                  /\ v.hour = hh /\ v.minute = mm /\ v.second = ss
                  /\ hh <= 23 /\ mm <= 59 /\ ss <= 59
                  /\ v.month \in 1..12
                  /\ v.day \in 1..DaysInMonth(v.year, v.month)
            /\ (t_in.mjd >= 15079 /\ hh <= 23 /\ mm <= 59 /\ ss <= 59) =>
                  (~t_out.none /\ DayCountOf(v.year, v.month, v.day) = t_in.mjd)

\* an hour byte 0x2A (nibbles 2 and 10, hour 30) on the reference day gave none
C10_Witness ==
    /\ pc = "decoded"
    /\ t_in.mjd = 58849
    /\ t_in.h = 42
    /\ ~t_out.raised
    /\ t_out.none

----------------------------------------------------------------------------
(* Table specification: parse_eit_section or parse_sdt_section applied once  *)
(* to a section of two entries.  The first entry's descriptor loop is any    *)
(* sequence of at most MaxDescs descriptors of a catalogue that holds        *)
(* well-formed descriptors, descriptors too short for their fixed fields and *)
(* a descriptor whose length runs past the end of the section; the last      *)
(* entry's loop length may be declared larger than the bytes that follow.    *)

MaxDescs == 3

LoopExcess == 6     \* bytes by which a corrupt loop length overshoots

Descriptor(tag, data) == <<tag, Len(data)>> \o data

Jpn == <<106, 112, 110>>

\* an extended event descriptor, number num of 0..2, with one item and a text
ExtendedEventData(num, item, text) ==
    <<(num * 16) + 2>> \o Jpn \o <<Len(item)>> \o item \o <<Len(text)>> \o text

FragmentItem(num, v) == <<1, 65 + num, 1, 97 + num + (8 * v)>>

FragmentText(num, v) == <<120 + num + (3 * v)>>

\* kind "ext": extended event descriptor with its number, item bytes and text
\* bytes; "short": too small for its fixed fields; "over": length past the
\* end of the section; "ext0": extended event descriptor of length 0
Fragments ==
    {[kind |-> "ext", num |-> n, item |-> FragmentItem(n, v), text |-> FragmentText(n, v),
      bytes |-> Descriptor(78, ExtendedEventData(n, FragmentItem(n, v), FragmentText(n, v)))]
        : n \in 0..2, v \in 0..1}

OtherDescriptor(kind, bytes) ==
    [kind |-> kind, num |-> 0, item |-> <<>>, text |-> <<>>, bytes |-> bytes]

EitDescriptors ==
    Fragments \cup
    { OtherDescriptor("ext0", <<78, 0>>),
      OtherDescriptor("short", <<77, 2, 106, 112>>),
      OtherDescriptor("short", <<80, 1, 1>>),
      OtherDescriptor("short", <<196, 2, 2, 1>>),
      OtherDescriptor("short", <<84, 1, 16>>),
      OtherDescriptor("whole", Descriptor(77, Jpn \o <<1, 84, 2, 68, 32>>)),
      OtherDescriptor("whole", <<84, 4, 1, 255, 12, 255>>),
      OtherDescriptor("whole", <<84, 2, 192, 255>>),
      OtherDescriptor("whole", Descriptor(80, <<1, 179, 0>> \o Jpn)),
      OtherDescriptor("whole", Descriptor(80, <<1, 153, 0>> \o Jpn \o <<86>>)),
      OtherDescriptor("whole", Descriptor(196, <<2, 3, 16, 15, 255, 78>> \o Jpn)),
      OtherDescriptor("whole", Descriptor(196, <<2, 153, 16, 15, 255, 78>> \o Jpn)),
      OtherDescriptor("over", <<77, 200>>) }

\* a descriptor of length 3 with number 1: too short for an item or a text
ShortFragment ==
    [kind |-> "ext", num |-> 1, item |-> <<>>, text |-> <<>>,
     bytes |-> <<78, 3, 16, 106, 112>>]

SdtDescriptors ==
    { OtherDescriptor("whole", Descriptor(72, <<1, 1, 80, 1, 65>>)),
      OtherDescriptor("whole", Descriptor(72, <<1, 1, 81, 2, 66, 32>>)),
      OtherDescriptor("whole", Descriptor(72, <<1, 1, 80, 0>>)),
      OtherDescriptor("whole", Descriptor(72, <<1, 0, 2, 32, 32>>)),
      OtherDescriptor("whole", <<73, 1, 0>>),
      OtherDescriptor("short", <<72, 2, 1, 0>>),
      OtherDescriptor("over", <<72, 200>>) }

DescriptorBytes(descs) == Flatten([i \in 1..Len(descs) |-> descs[i].bytes])

Crc == <<0, 0, 0, 0>>       \* CRC_32; the program never checks it

\* one entry of the event loop: a 12-byte header and the descriptors
EitEvent(event_id, mjd, hour_bcd, minutes_bcd, descs, declared) ==
    <<event_id \div 256, event_id % 256, mjd \div 256, mjd % 256, hour_bcd, 0, 0,
      0, minutes_bcd, 0, 240 + (declared \div 256), declared % 256>> \o descs

EitSection(table_id, service_id, entries) ==
    LET section_length == 11 + Len(entries) + 4
    IN  <<table_id, 240 + (section_length \div 256), section_length % 256,
          service_id \div 256, service_id % 256, 193, 0, 0, 0, 1, 0, 1, 0, table_id>>
        \o entries \o Crc

\* one entry of the service loop: a 5-byte header and the descriptors
SdtService(service_id, descs, declared) ==
    <<service_id \div 256, service_id % 256, 255,
      128 + (declared \div 256), declared % 256>> \o descs

SdtSection(entries) ==
    LET section_length == 8 + Len(entries) + 4
    IN  <<66, 240 + (section_length \div 256), section_length % 256,
          0, 1, 193, 0, 0, 0, 1, 255>> \o entries \o Crc

EitInput(descs, excess) ==
    [kind |-> "eit", descs |-> descs, excess |-> excess,
     data |-> EitSection(78, 1,
                 EitEvent(1, 58849, 18, 48, DescriptorBytes(descs),
                          Len(DescriptorBytes(descs)))
                 \o EitEvent(2, 58849, 19, 48, <<>>, excess))]

SdtInput(descs, excess) ==
    [kind |-> "sdt", descs |-> descs, excess |-> excess,
     data |-> SdtSection(
                 SdtService(1, DescriptorBytes(descs), Len(DescriptorBytes(descs)))
                 \o SdtService(2, Descriptor(72, <<1, 1, 80, 1, 90>>), 7 + excess))]

TableInit ==
    /\ CollectorFresh
    /\ SplitIdle
    /\ TimeIdle
    /\ MainIdle
    /\ \E excess \in {0, LoopExcess} :
          \/ \E descs \in SeqsUpTo(EitDescriptors \cup {ShortFragment}, MaxDescs) :
                sec_in = EitInput(descs, excess)
          \/ \E descs \in SeqsUpTo(SdtDescriptors, MaxDescs) :
                sec_in = SdtInput(descs, excess)
    /\ parsed = <<>>
    /\ pc = "section"

ParseEit ==
    /\ pc = "section"
    /\ sec_in.kind = "eit"
    /\ parsed' = parse_eit_section(sec_in.data)
    /\ pc' = "parsed"
    /\ UNCHANGED <<collectorVars, splitVars, timeVars, mainVars, sec_in>>

ParseSdt ==
    /\ pc = "section"
    /\ sec_in.kind = "sdt"
    /\ parsed' = parse_sdt_section(sec_in.data)
    /\ pc' = "parsed"
    /\ UNCHANGED <<collectorVars, splitVars, timeVars, mainVars, sec_in>>

TableNext == ParseEit \/ ParseSdt

SpecTable == TableInit /\ [][TableNext]_vars

----------------------------------------------------------------------------
(* Claims about the table decoders *)

ParsedEit == pc = "parsed" /\ sec_in.kind = "eit"

DescKinds == {sec_in.descs[i].kind : i \in 1..Len(sec_in.descs)}

\* the extended event descriptors of the first event entry, in physical order
ExtIndexes == {i \in 1..Len(sec_in.descs) : sec_in.descs[i].kind = "ext"}

DistinctNumbers ==
    \A i, j \in ExtIndexes : i # j => sec_in.descs[i].num # sec_in.descs[j].num

\* the indexes of the extended event descriptors by ascending descriptor number
RECURSIVE ByNumber(_)
ByNumber(I) ==
    IF I = {} THEN <<>>
    ELSE LET lo == CHOOSE i \in I : \A j \in I : sec_in.descs[i].num <= sec_in.descs[j].num
         IN  <<lo>> \o ByNumber(I \ {lo})

AscendingItems ==
    LET order == ByNumber(ExtIndexes)
    IN  Flatten([i \in 1..Len(order) |-> sec_in.descs[order[i]].item])

AscendingTexts ==
    LET order == ByNumber(ExtIndexes)
    IN  Flatten([i \in 1..Len(order) |-> sec_in.descs[order[i]].text])

\* C6: when the descriptor loop of an event entry holds extended event
\* descriptors with pairwise distinct numbers (and every descriptor lies inside
\* its loop), the item bytes and the text bytes handed to the combiner are the
\* fragments joined by ascending number, whatever their physical order.
C6_FragmentOrdering ==
    (/\ ParsedEit
     /\ DescKinds \subseteq {"ext", "short", "whole"}
     /\ sec_in.excess = 0
     /\ DistinctNumbers)
    => /\ ~parsed.raised
       /\ Len(parsed.combined) = 2
       /\ parsed.combined[1] = [items |-> AscendingItems, texts |-> AscendingTexts]

\* three fragments numbered 2, 0, 1 in physical order were combined as 0, 1, 2
C6_Witness ==
    /\ ParsedEit
    /\ Len(sec_in.descs) = 3
    /\ \A i \in 1..3 : sec_in.descs[i].kind = "ext" /\ sec_in.descs[i].item # <<>>
    /\ <<sec_in.descs[1].num, sec_in.descs[2].num, sec_in.descs[3].num>> = <<2, 0, 1>>
    /\ ~parsed.raised
    /\ parsed.combined[1].items =
          sec_in.descs[2].item \o sec_in.descs[3].item \o sec_in.descs[1].item
    /\ parsed.combined[1].texts =
          sec_in.descs[2].text \o sec_in.descs[3].text \o sec_in.descs[1].text

\* C7: an event-information section whose descriptors are too short for their
\* fixed fields (among them an extended event descriptor of length 0) is
\* decoded without raising, and the list of its events is returned.
C7_UnderflowRecovered ==
    (/\ ParsedEit
     /\ DescKinds \subseteq {"ext", "short", "whole", "ext0"}
     /\ sec_in.excess = 0)
    => /\ ~parsed.raised
       /\ Len(parsed.events) = 2

\* C8: a section in which a descriptor-loop length or a descriptor length
\* points past the end of the section is decoded without raising.
C8_NoFaultOnOverrun ==
    (/\ pc = "parsed"
     /\ "ext0" \notin DescKinds
     /\ sec_in.excess > 0 \/ "over" \in DescKinds)
    => ~parsed.raised

----------------------------------------------------------------------------
(* Main specification: main reads at most MaxScan packets and then reports.  *)
(* Every packet carries one whole section behind a pointer of 0 and is       *)
(* filled up with 0xFF; `scanned` records how each packet was built.  An     *)
(* event of variant v has the title <<65 + v>>; variant 2 has a start time   *)
(* that does not decode.                                                     *)

MaxScan == 3

max_packets == 1000000

NoOffset == [none |-> TRUE, seconds |-> 0]

Offset600 == [none |-> FALSE, seconds |-> 600]

\* the command lines tried; sid 0 stands for no --sid (the source tests `if args.sid`)
MainArgs ==
    { [all_events |-> FALSE, all_services |-> FALSE, sid |-> 0, offset |-> NoOffset],
      [all_events |-> TRUE, all_services |-> TRUE, sid |-> 0, offset |-> NoOffset],
      [all_events |-> FALSE, all_services |-> FALSE, sid |-> 1, offset |-> NoOffset],
      [all_events |-> FALSE, all_services |-> FALSE, sid |-> 0, offset |-> Offset600],
      [all_events |-> FALSE, all_services |-> TRUE, sid |-> 0, offset |-> Offset600] }

MainEvent(e) ==
    EitEvent(e.event_id, 58849, CASE e.v = 0 -> 18 [] e.v = 1 -> 19 [] OTHER -> 42, 48,
             Descriptor(77, Jpn \o <<1, 65 + e.v, 0>>), 8)

Ev(event_id, v) == [event_id |-> event_id, v |-> v]

EventLists ==
    [s \in {1, 2} |->
        IF s = 1 THEN { <<Ev(1, 0)>>, <<Ev(1, 1)>>, <<Ev(1, 0), Ev(1, 1)>>, <<Ev(3, 2)>> }
        ELSE { <<Ev(2, 0)>>, <<Ev(1, 1)>> }]

SixEvents == [i \in 1..6 |-> Ev(i, 0)]

EitPackets ==
    UNION {{[kind |-> "eit", pid |-> EIT_PID, table_id |-> 78, sid |-> sid, events |-> evs]
               : evs \in EventLists[sid]} : sid \in {1, 2}}
    \cup {[kind |-> "eit", pid |-> EIT_H_PID, table_id |-> 78, sid |-> 1, events |-> SixEvents],
          [kind |-> "eit", pid |-> EIT_M_PID, table_id |-> 79, sid |-> 1,
           events |-> <<Ev(1, 1), Ev(2, 1)>>]}

EitPacketSection(m) ==
    EitSection(m.table_id, m.sid,
               Flatten([i \in 1..Len(m.events) |-> MainEvent(m.events[i])]))

\* name 0: the entry has no service descriptor; name 32: its name is one space;
\* the provider name is the byte 15 above the name
NamedService(sid, name) ==
    IF name = 0 THEN SdtService(sid, <<>>, 0)
    ELSE SdtService(sid, Descriptor(72, <<1, 1, name + 15, 1, name>>), 7)

SdtPackets ==
    {[kind |-> "sdt", names |-> n] :
        n \in { <<[sid |-> 1, name |-> 65]>>, <<[sid |-> 2, name |-> 66]>>,
                <<[sid |-> 2, name |-> 67], [sid |-> 1, name |-> 0],
                  [sid |-> 3, name |-> 32]>> }}

SdtPacketSection(m) ==
    SdtSection(Flatten([i \in 1..Len(m.names) |->
                           NamedService(m.names[i].sid, m.names[i].name)]))

PatPackets == {[kind |-> "pat", programs |-> p] : p \in {<<0, 2, 1>>, <<3, 1>>}}

PatPacketSection(m) ==
    <<0, 176, 9 + (4 * Len(m.programs)), 0, 1, 193, 0, 0>>
    \o Flatten([i \in 1..Len(m.programs) |-> <<0, m.programs[i], 224, 16>>])
    \o Crc

TotPackets == {[kind |-> "tot", hour_bcd |-> h, min_bcd |-> 16] : h \in {18, 19}}

TotPacketSection(m) ==
    <<115, 112, 11, 58849 \div 256, 58849 % 256, m.hour_bcd, m.min_bcd, 0, 240, 0>> \o Crc

SectionPacket(pid, section) == MakePacket(pid, TRUE, <<0>> \o section, TRUE)

MainInit ==
    /\ CollectorFresh
    /\ SplitIdle
    /\ TimeIdle
    /\ TableIdle
    /\ \E args \in MainArgs : main_state = main_start(args)
    /\ scanned = <<>>
    /\ pc = "main"

\* f.read returned a whole packet and the loop condition held
ReadPacket(packet, m) ==
    /\ main_state.status = "scanning"
    /\ Len(scanned) < MaxScan
    /\ main_state.packet_count < max_packets
    /\ main_state' = scan_packet(main_state, packet)
    /\ scanned' = Append(scanned, m)
    /\ UNCHANGED <<collectorVars, splitVars, timeVars, tableVars, pc>>

ReadPatPacket == \E m \in PatPackets : ReadPacket(SectionPacket(PAT_PID, PatPacketSection(m)), m)

ReadSdtPacket == \E m \in SdtPackets : ReadPacket(SectionPacket(SDT_PID, SdtPacketSection(m)), m)

ReadEitPacket == \E m \in EitPackets : ReadPacket(SectionPacket(m.pid, EitPacketSection(m)), m)

ReadTotPacket == \E m \in TotPackets : ReadPacket(SectionPacket(TOT_PID, TotPacketSection(m)), m)

\* a packet of another stream, or one that does not start with the sync byte
ReadOtherPacket ==
    \E synced \in BOOLEAN :
        ReadPacket([SectionPacket(256, <<>>) EXCEPT ![1] = IF synced THEN SYNC_BYTE ELSE 0],
                   [kind |-> "other", synced |-> synced])

\* f.read returned less than a packet, or the early-exit break was taken
EndOfFile ==
    /\ main_state.status \in {"scanning", "stopped"}
    /\ main_state' = report(main_state)
    /\ UNCHANGED <<collectorVars, splitVars, timeVars, tableVars, scanned, pc>>

MainNext ==
    \/ ReadPatPacket
    \/ ReadSdtPacket
    \/ ReadEitPacket
    \/ ReadTotPacket
    \/ ReadOtherPacket
    \/ EndOfFile

SpecMain == MainInit /\ [][MainNext]_vars

----------------------------------------------------------------------------
(* Claims about main's aggregation *)

Reported == pc = "main" /\ main_state.status = "done"

\* the packets whose events main aggregates for service sid: event sections of
\* that service, of table 0x4E unless --all-events or --offset is given, and
\* with --offset only those read after the first TOT
Aggregated(sid) ==
    SelectSeq([i \in 1..Len(scanned) |-> [m |-> scanned[i], i |-> i]],
              LAMBDA x :
                 /\ x.m.kind = "eit"
                 /\ x.m.sid = sid
                 /\ (main_state.args.all_events \/ main_state.need_tot \/ x.m.table_id = 78)
                 /\ main_state.need_tot
                       => \E j \in 1..(x.i - 1) : scanned[j].kind = "tot")

\* the events read for service sid, in stream order
StreamEvents(sid) ==
    LET a == Aggregated(sid)
    IN  Flatten([i \in 1..Len(a) |-> a[i].m.events])

FirstVariant(evs, event_id) ==
    evs[CHOOSE i \in 1..Len(evs) :
           /\ evs[i].event_id = event_id
           /\ \A j \in 1..(i - 1) : evs[j].event_id # event_id].v

\* C5: in the reported list of every service, no two events share an id, and
\* each event is the first one with its id among the events read for that
\* service in stream order, whatever came later under the same id.
C5_EventDedup ==
    Reported =>
        \A s \in 1..Len(main_state.service_list) :
            LET entry == main_state.service_list[s]
                evs == StreamEvents(entry.sid)
            IN  /\ \A i, j \in 1..Len(entry.events) :
                       i # j => entry.events[i].event_id # entry.events[j].event_id
                /\ \A i \in 1..Len(entry.events) :
                       /\ \E k \in 1..Len(evs) : evs[k].event_id = entry.events[i].event_id
                       /\ entry.events[i].title =
                             <<65 + FirstVariant(evs, entry.events[i].event_id)>>

\* two packets brought event 1 of service 1 with different content; the report
\* lists event 1 once, with the content of the earlier packet
C5_Witness ==
    /\ Reported
    /\ \E i, j \in 1..Len(scanned) :
          /\ i < j
          /\ scanned[i].kind = "eit" /\ scanned[i].sid = 1 /\ scanned[i].events = <<Ev(1, 1)>>
          /\ scanned[j].kind = "eit" /\ scanned[j].sid = 1 /\ scanned[j].events = <<Ev(1, 0)>>
    /\ Len(main_state.service_list) = 1
    /\ main_state.service_list[1].sid = 1
    /\ Len(main_state.service_list[1].events) = 1
    /\ main_state.service_list[1].events[1].event_id = 1
    /\ main_state.service_list[1].events[1].title = <<66>>

\* the packets main processes: with --offset, those read after the first TOT
Processed(i) ==
    main_state.need_tot => \E j \in 1..(i - 1) : scanned[j].kind = "tot"

\* some service-list section read so far gave sid a name that is not blank
NamedBySdt(sid) ==
    \E i \in 1..Len(scanned) :
        /\ scanned[i].kind = "sdt"
        /\ Processed(i)
        /\ \E n \in 1..Len(scanned[i].names) :
              /\ scanned[i].names[n].sid = sid
              /\ scanned[i].names[n].name \notin {0, 32}

\* C11: the services main has collected, and the services it reports, are only
\* ids to which a service-list section gave a non-empty name; an id that occurs
\* only in the program list, in event sections or in a nameless service entry
\* is never reported.
C11_NamedServicesOnly ==
    pc = "main" =>
        /\ \A i \in 1..Len(main_state.services) :
               /\ NamedBySdt(main_state.services[i].k)
               /\ main_state.services[i].v[1] # <<>>
        /\ \A s \in 1..Len(main_state.service_list) :
               /\ NamedBySdt(main_state.service_list[s].sid)
               /\ main_state.service_list[s].service_name # <<>>

\* service 1 had a nameless entry and events, service 3 a blank name, service 2
\* a name and events: with --all-services the report lists service 2 alone
C11_Witness ==
    /\ Reported
    /\ main_state.args.all_services
    /\ \E i \in 1..Len(scanned) :
          /\ scanned[i].kind = "sdt" /\ Processed(i) /\ Len(scanned[i].names) = 3
    /\ \E i \in 1..Len(scanned) :
          /\ scanned[i].kind = "eit" /\ Processed(i)
          /\ scanned[i].sid = 1 /\ scanned[i].table_id = 78
          /\ scanned[i].events = <<Ev(1, 0)>>
    /\ \E i \in 1..Len(scanned) :
          scanned[i].kind = "eit" /\ Processed(i) /\ scanned[i].sid = 2
    /\ ~NamedBySdt(1)
    /\ dict_has(main_state.events_by_service, 1)
    /\ Len(main_state.service_list) = 1
    /\ main_state.service_list[1].sid = 2

----------------------------------------------------------------------------
(* Descriptor specification: one descriptor decoder applied once to the data *)
(* of a descriptor.  Content descriptors range over every first byte of a    *)
(* genre entry, component descriptors over every type code.                  *)

Bytes == 0..255

\* data of a content descriptor: no, one or two 2-byte entries, with or
\* without a dangling byte
ContentData ==
    {<<>>} \cup {<<b>> : b \in Bytes} \cup {<<b, 255>> : b \in Bytes}
    \cup {<<b, 255, b2>> : b \in Bytes, b2 \in {11}}
    \cup {<<b, 255, b2, 255>> : b \in Bytes, b2 \in {11, 192}}

\* data of a component descriptor (tag 0x50)
ComponentData ==
    {<<sc, t, 0>> \o Jpn \o text : sc \in {1, 2, 5, 241}, t \in Bytes, text \in {<<>>, <<86>>}}
    \cup {<<1, 179, 0, 106, 112>>}

\* data of an audio component descriptor (tag 0xC4); flags 0x4E: main
\* component, 48 kHz; 0x82: second language, 16 kHz
AudioComponentData ==
    {<<sc, t, 16, 15, 255, flags>> \o Jpn \o text :
        sc \in {2, 1}, t \in Bytes, flags \in {78, 130}, text \in {<<>>, Jpn \o <<65>>}}
    \cup {<<2, 3, 16, 15, 255, 78, 106, 112>>}

\* one (name, content) tuple of the item area of an extended event descriptor
ItemTuple(name, content) == <<Len(name)>> \o name \o <<Len(content)>> \o content

ItemTuples ==
    {ItemTuple(name, content) : name \in {<<>>, <<78>>}, content \in {<<>>, <<65>>, <<66>>}}

MaxTuples == 4

\* item payloads handed to the combiner: up to MaxTuples tuples, whole or cut
\* off at any byte
ItemPayloads ==
    LET whole == UNION {{Flatten(ts) : ts \in [1..n -> ItemTuples]} : n \in 0..MaxTuples}
    IN  UNION {{SubSeq(w, 1, k) : k \in 0..Len(w)} : w \in whole}

DescriptorInit ==
    /\ CollectorFresh
    /\ SplitIdle
    /\ TimeIdle
    /\ MainIdle
    /\ \/ \E data \in ContentData : sec_in = [kind |-> "content", data |-> data]
       \/ \E data \in ComponentData : sec_in = [kind |-> "component", data |-> data]
       \/ \E data \in AudioComponentData : sec_in = [kind |-> "audio", data |-> data]
       \/ \E data \in ItemPayloads, text \in {<<>>, <<84>>} :
             sec_in = [kind |-> "extended", data |-> data, text |-> text]
    /\ parsed = <<>>
    /\ pc = "descriptor"

Decoded(result) ==
    /\ pc = "descriptor"
    /\ parsed' = [result |-> result]
    /\ pc' = "decoded"
    /\ UNCHANGED <<collectorVars, splitVars, timeVars, mainVars, sec_in>>

ParseContent == sec_in.kind = "content" /\ Decoded(parse_content_descriptor(sec_in.data))

ParseComponent == sec_in.kind = "component" /\ Decoded(parse_component_descriptor(sec_in.data))

ParseAudioComponent ==
    sec_in.kind = "audio" /\ Decoded(parse_audio_component_descriptor(sec_in.data))

\* item_list is the list of entries the combiner builds before it decodes them
CombineExtended ==
    /\ sec_in.kind = "extended"
    /\ pc = "descriptor"
    /\ parsed' = [result |-> decode_combined_extended_info(sec_in.data, sec_in.text),
                  item_list |-> parse_item_list(sec_in.data, 0, <<>>)]
    /\ pc' = "decoded"
    /\ UNCHANGED <<collectorVars, splitVars, timeVars, mainVars, sec_in>>

DescriptorNext == ParseContent \/ ParseComponent \/ ParseAudioComponent \/ CombineExtended

SpecDescriptor == DescriptorInit /\ [][DescriptorNext]_vars

----------------------------------------------------------------------------
(* Claims about the descriptor decoders *)

DecodedAs(kind) == pc = "decoded" /\ sec_in.kind = kind

\* the middle code of the entry resolves: the large code has a middle-category
\* table and the middle code is one of its keys
MiddleResolves(b) ==
    /\ (b \div 16) \in DOMAIN ARIB_GENRE_MIDDLE
    /\ (b % 16) \in ARIB_GENRE_MIDDLE[b \div 16]

\* C12: a genre record holds middle_code and middle_name exactly when the
\* middle code of its entry resolves; otherwise it holds the large category
\* alone.
C12_MiddleOnlyIfResolved ==
    DecodedAs("content") =>
        /\ Len(parsed.result) = Len(sec_in.data) \div 2
        /\ \A i \in 1..Len(parsed.result) :
              LET g == parsed.result[i]
                  b == sec_in.data[(2 * i) - 1]
              IN  /\ g.large_code = b \div 16
                  /\ IF MiddleResolves(b)
                     THEN DOMAIN g = {"large_code", "large_name", "middle_code", "middle_name"}
                          /\ g.middle_code = b % 16
                     ELSE DOMAIN g = {"large_code", "large_name"}

\* the type code of a component is a key of the static table the decoder
\* consults for its stream kind: the video decoder consults the video table
\* for stream kind 1 and the audio table for stream kind 2, the audio decoder
\* the audio table for stream kind 2
TypeRecognized(kind, data) ==
    \/ kind = "component" /\ (data[1] % 16) = 1 /\ data[2] \in COMPONENT_TYPE_VIDEO
    \/ (data[1] % 16) = 2 /\ data[2] \in COMPONENT_TYPE_AUDIO

\* C13: a component returned by either component decoder has a detail record
\* exactly when its type code is recognized; otherwise the record has no
\* "details" field at all.
C13_DetailsOnlyIfRecognized ==
    (/\ DecodedAs("component") \/ DecodedAs("audio")
     /\ parsed.result # <<>>)
    => IF TypeRecognized(sec_in.kind, sec_in.data)
       THEN "details" \in DOMAIN parsed.result /\ parsed.result.details # <<>>
       ELSE "details" \notin DOMAIN parsed.result

\* the tuples of an item payload that are read: those whose content-length
\* byte is inside the payload (the content itself may be cut short)
RECURSIVE TuplesRead(_, _)
TuplesRead(payload, offset) ==
    IF offset >= Len(payload) THEN <<>>
    ELSE LET name_len == payload[offset + 1]
             c == offset + 1 + name_len
         IN  IF c >= Len(payload) THEN <<>>
             ELSE <<[name_len |-> name_len,
                     name |-> Slice(payload, offset + 1, c),
                     content |-> Slice(payload, c + 1, c + 1 + payload[c + 1])]>>
                  \o TuplesRead(payload, c + 1 + payload[c + 1])

\* the positions of the tuples that create an entry: the first tuple and
\* every later tuple whose name-length is not 0
EntryStarts(tuples) == {i \in 1..Len(tuples) : i = 1 \/ tuples[i].name_len > 0}

\* the tuples of the entry that starts at position i
EntryTuples(tuples, i) ==
    {j \in i..Len(tuples) : \A k \in (i + 1)..j : tuples[k].name_len = 0}

\* C16: the combiner's entries are the tuples read, merged: the first tuple
\* and every later tuple of non-zero name-length create an entry, a later
\* tuple of name-length 0 appends its content to the previous entry, and a
\* tuple cut off before its content-length byte ends the scan with the
\* earlier entries kept.  The number of entries is 1 (if a tuple was read)
\* plus the number of later tuples of non-zero name-length.
C16_CombinerMerge ==
    DecodedAs("extended") =>
        LET tuples == TuplesRead(sec_in.data, 0)
            starts == SortedSeq(EntryStarts(tuples))
            later == {i \in 2..Len(tuples) : tuples[i].name_len > 0}
        IN  /\ Len(parsed.item_list)
                 = (IF tuples = <<>> THEN 0 ELSE 1) + Cardinality(later)
            /\ Len(parsed.item_list) = Len(starts)
            /\ \A e \in 1..Len(starts) :
                  /\ parsed.item_list[e].name = tuples[starts[e]].name
                  /\ parsed.item_list[e].content
                       = Flatten([n \in 1..Cardinality(EntryTuples(tuples, starts[e]))
                                    |-> tuples[starts[e] + n - 1].content])

\* a first tuple of name-length 0, a continuation, a named tuple, and a last
\* tuple cut off before its content-length byte
C16_Witness ==
    /\ DecodedAs("extended")
    /\ sec_in.data = <<0, 1, 65, 0, 1, 66, 1, 78, 1, 65, 1, 78>>
    /\ parsed.item_list = <<[name |-> <<>>, content |-> <<65, 66>>],
                            [name |-> <<78>>, content |-> <<65>>]>>

----------------------------------------------------------------------------
(* Claims about duplicate fragment numbers *)

\* the extended event descriptors that are the last of their number in
\* physical order
LastOfNumber ==
    {i \in ExtIndexes :
        \A j \in ExtIndexes : sec_in.descs[j].num = sec_in.descs[i].num => j <= i}

FragmentNumbers == {sec_in.descs[i].num : i \in ExtIndexes}

\* C20: when the descriptor loop of an event entry holds several extended
\* event descriptors of one number, only the last of them in physical order
\* contributes its item bytes and its text bytes to what the combiner gets;
\* the number of fragments combined is the number of distinct numbers (a
\* fragment that is not cut short has one text byte and four item bytes).
C20_LastDuplicateWins ==
    (/\ ParsedEit
     /\ DescKinds \subseteq {"ext", "short", "whole"}
     /\ sec_in.excess = 0)
    => LET order == ByNumber(LastOfNumber)
       IN  /\ ~parsed.raised
           /\ parsed.combined[1].items
                = Flatten([i \in 1..Len(order) |-> sec_in.descs[order[i]].item])
           /\ parsed.combined[1].texts
                = Flatten([i \in 1..Len(order) |-> sec_in.descs[order[i]].text])
           /\ (\A i \in ExtIndexes : sec_in.descs[i].text # <<>>)
                => /\ Len(parsed.combined[1].texts) = Cardinality(FragmentNumbers)
                   /\ Len(parsed.combined[1].items) = 4 * Cardinality(FragmentNumbers)

\* number 1 occurs twice with different bytes, around a fragment numbered 0:
\* the second occurrence is the one combined
C20_Witness ==
    /\ ParsedEit
    /\ Len(sec_in.descs) = 3
    /\ \A i \in 1..3 : sec_in.descs[i].kind = "ext"
    /\ <<sec_in.descs[1].num, sec_in.descs[2].num, sec_in.descs[3].num>> = <<1, 0, 1>>
    /\ sec_in.descs[1].item # sec_in.descs[3].item
    /\ sec_in.descs[1].text # sec_in.descs[3].text
    /\ sec_in.excess = 0
    /\ ~parsed.raised
    /\ parsed.combined[1].items = sec_in.descs[2].item \o sec_in.descs[3].item
    /\ parsed.combined[1].texts = sec_in.descs[2].text \o sec_in.descs[3].text

----------------------------------------------------------------------------
(* Delivery specification: packets of two pids, interleaved in any order, go *)
(* to one collector; next to it, one collector per pid gets the packets of   *)
(* that pid alone.  Sections of table ids 0x4E and 0x42 are begun, continued *)
(* and completed; a unit start may arrive while a section is unfinished.     *)

MaxDelivered == 4

\* unit-start payloads: pointer, the bytes the pointer covers, the new section
UnitStarts ==
    { [pusi |-> TRUE, payload |-> <<0, 78, 0, 2, 7>>, stuff |-> FALSE],   \* 1 byte short
      [pusi |-> TRUE, payload |-> <<0, 66, 0, 1>>, stuff |-> FALSE],      \* 1 byte short
      [pusi |-> TRUE, payload |-> <<0, 78, 0, 0>>, stuff |-> FALSE],      \* complete
      [pusi |-> TRUE, payload |-> <<1, 7, 78, 0, 0>>, stuff |-> TRUE],    \* complete
      [pusi |-> TRUE, payload |-> <<1, 7, 66, 0, 1>>, stuff |-> FALSE] }  \* 1 byte short

Continuations ==
    { [pusi |-> FALSE, payload |-> <<7>>, stuff |-> FALSE],
      [pusi |-> FALSE, payload |-> <<7>>, stuff |-> TRUE] }

DeliveryInit ==
    /\ CollectorFresh
    /\ sect = <<>>
    /\ todo = <<>>
    /\ emitted = <<>>
    /\ solo = [p \in Pids |-> [buffers |-> <<>>, out |-> <<>>]]
    /\ TimeIdle
    /\ TableIdle
    /\ MainIdle
    /\ pc = "delivery"

\* the collector of `pid` alone after the add_packet call that returned r
solo_fed(pid, r) == [solo EXCEPT ![pid] = [buffers |-> r.buffers, out |-> r.res]]

Deliver(pid, k) ==
    /\ pc = "delivery"
    /\ npk < MaxDelivered
    /\ Feed(pid, k.pusi, k.payload, k.stuff)
    /\ solo' = solo_fed(pid, add_packet(solo[pid].buffers,
                                        MakePacket(pid, k.pusi, k.payload, k.stuff)))
    /\ UNCHANGED <<sect, todo, emitted, timeVars, tableVars, mainVars, pc>>

DeliverUnitStart == \E pid \in Pids, k \in UnitStarts : Deliver(pid, k)

DeliverContinuation == \E pid \in Pids, k \in Continuations : Deliver(pid, k)

DeliveryNext == DeliverUnitStart \/ DeliverContinuation

SpecDelivery == DeliveryInit /\ [][DeliveryNext]_vars

----------------------------------------------------------------------------
(* Claims about delivery to the buffers *)

Delivered == pc = "delivery" /\ npk > 0

\* packet[offset:] of the last packet: its payload and the stuffing behind it
ActualPayload ==
    IF last.stuff
    THEN last.payload \o Fill(TS_PACKET_SIZE - 4 - Len(last.payload), STUFFING)
    ELSE last.payload

\* the bytes after the pointer that the pointer covers / the bytes behind them
PointerPrefix == Slice(ActualPayload, 1, 1 + ActualPayload[1])

AfterPointer == SliceFrom(ActualPayload, 1 + ActualPayload[1])

\* no complete section at the front
Drained(buf) == Len(buf) < 3 \/ Len(buf) < DeclaredTotal(buf)

\* the buffers of the packet's pid that held bytes before the call, in map order
OpenBefore ==
    SortedSeq({i \in 1..Len(pre) : pre[i].p = last.pid /\ pre[i].buf # <<>>})

EndsWith(s, t) == Len(s) >= Len(t) /\ SubSeq(s, Len(s) - Len(t) + 1, Len(s)) = t

StartsWith(s, t) == Len(s) >= Len(t) /\ SubSeq(s, 1, Len(t)) = t

\* C14: a continuation packet appends its whole payload, and a unit-start
\* packet with a pointer above 0 the bytes its pointer covers, to every buffer
\* of its pid that holds bytes, and drains each of them; this is done before
\* the bytes after the pointer are processed, so the sections the prefix
\* completes come first in the returned list.
C14_ContinuationDelivery ==
    (Delivered /\ (last.pusi => last.payload[1] > 0))
    => LET open == OpenBefore
           n == Len(open)
           data == IF last.pusi THEN PointerPrefix ELSE ActualPayload
       IN  /\ Len(exlog) >= n
           /\ \A k \in 1..n :
                 /\ exlog[k].p = last.pid
                 /\ exlog[k].tid = pre[open[k]].tid
                 /\ exlog[k].before = pre[open[k]].buf \o data
                 /\ Drained(exlog[k].after)
                 /\ \A j \in 1..Len(exlog[k].res) : IsCompleteSection(exlog[k].res[j])
           /\ out = Flatten([k \in 1..Len(exlog) |-> exlog[k].res])
           /\ IF last.pusi /\ Len(AfterPointer) >= 3
              THEN /\ Len(exlog) = n + 1
                   /\ exlog[n + 1].tid = AfterPointer[1]
                   /\ EndsWith(exlog[n + 1].before, AfterPointer)
              ELSE /\ Len(exlog) = n
                   /\ \A k \in 1..n : buffers[open[k]].buf = exlog[k].after
                   /\ \A i \in 1..Len(pre) :
                         (\A k \in 1..n : open[k] # i) => buffers[i] = pre[i]

\* two sections were open for the pid; a unit start with pointer 1 completed
\* both with its prefix byte and then delivered a third
C14_Witness ==
    /\ Delivered
    /\ last.pusi
    /\ last.payload = <<1, 7, 78, 0, 0>>
    /\ Len(OpenBefore) = 2
    /\ out = << <<78, 0, 2, 7, 7>>, <<66, 0, 1, 7>>, <<78, 0, 0>> >>

OfPid(bufs, p) == SelectSeq(bufs, LAMBDA b : b.p = p)

\* C18: add_packet leaves the buffers of every other pid as they were, and
\* what it returns and keeps for a pid is what a collector that got the
\* packets of that pid alone, in the same order, returns and keeps.
C18_PidIsolation ==
    Delivered
    => /\ Len(buffers) >= Len(pre)
       /\ \A i \in 1..Len(pre) : pre[i].p # last.pid => buffers[i] = pre[i]
       /\ \A i \in (Len(pre) + 1)..Len(buffers) : buffers[i].p = last.pid
       /\ out = solo[last.pid].out
       /\ \A p \in Pids : OfPid(buffers, p) = solo[p].buffers

\* a continuation completed a section of its pid while a buffer of the other
\* pid held an unfinished section
C18_Witness ==
    /\ Delivered
    /\ ~last.pusi
    /\ out # <<>>
    /\ \E i \in 1..Len(pre) :
          pre[i].p # last.pid /\ pre[i].buf # <<>> /\ buffers[i] = pre[i]

\* `before` is made of the sections `res`, each followed by 0xFF bytes only,
\* and then `after`
RECURSIVE Accounted(_, _, _)
Accounted(before, res, after) ==
    IF res = <<>> THEN before = after
    ELSE /\ StartsWith(before, Head(res))
         /\ \E n \in 0..(Len(before) - Len(Head(res))) :
               /\ \A i \in 1..n : before[Len(Head(res)) + i] = STUFFING
               /\ Accounted(SubSeq(before, Len(Head(res)) + n + 1, Len(before)),
                            Tail(res), after)

\* what buffer i held when the k-th drain of the call extended it
HeldAt(i, k) ==
    LET earlier == {j \in 1..(k - 1) : exlog[j].p = buffers[i].p /\ exlog[j].tid = buffers[i].tid}
    IN  IF earlier # {} THEN exlog[CHOOSE j \in earlier : \A m \in earlier : m <= j].after
        ELSE IF i <= Len(pre) THEN pre[i].buf ELSE <<>>

\* C19: bytes leave a buffer only as a returned section or as 0xFF stripped
\* right after one; a unit start does not clear the buffer of its key: the
\* new bytes go behind the bytes left there, and the next section the buffer
\* returns starts with those.
C19_NoReset ==
    Delivered
    => \A i \in 1..Len(buffers) :
          /\ buffers[i].buf = HeldAt(i, Len(exlog) + 1)
          /\ \A k \in 1..Len(exlog) :
                (exlog[k].p = buffers[i].p /\ exlog[k].tid = buffers[i].tid)
                => /\ StartsWith(exlog[k].before, HeldAt(i, k))
                   /\ Accounted(exlog[k].before, exlog[k].res, exlog[k].after)
                   /\ exlog[k].res # <<>> => StartsWith(exlog[k].res[1], HeldAt(i, k))

\* the buffer held a section one byte short; a unit start delivered a whole
\* section of the same key; the section returned starts with the old bytes
C19_Witness ==
    /\ Delivered
    /\ last.pusi
    /\ last.payload = <<0, 78, 0, 0>>
    /\ \E i \in 1..Len(pre) :
          /\ pre[i].p = last.pid
          /\ pre[i].buf = <<78, 0, 2, 7>>
          /\ out = << <<78, 0, 2, 7, 78>> >>
          /\ buffers[i].buf = <<0, 0>>

\* the largest 12-bit declared length plus the 3 header bytes, less one
MaxPending == 4097

\* C17: after every add_packet call, each buffer of the collector holds fewer
\* than 3 bytes or fewer bytes than 3 + the length declared at its head: no
\* buffer keeps a complete section at its front, none holds more than 4097
\* bytes.
C17_DrainedBuffers ==
    \A i \in 1..Len(buffers) :
        /\ Drained(buffers[i].buf)
        /\ ~(Len(buffers[i].buf) >= 3 /\ Len(buffers[i].buf) >= DeclaredTotal(buffers[i].buf))
        /\ Len(buffers[i].buf) <= MaxPending

\* a call returned a section from a buffer and left 3 or more bytes of an
\* unfinished section in it
C17_Witness ==
    /\ pc = "returned"
    /\ \E k \in 1..Len(exlog) :
          /\ exlog[k].res # <<>>
          /\ Len(exlog[k].after) >= 3
          /\ \E i \in 1..Len(buffers) :
                /\ buffers[i].p = exlog[k].p
                /\ buffers[i].tid = exlog[k].tid
                /\ buffers[i].buf = exlog[k].after

----------------------------------------------------------------------------
(* Repeat specification: several sections of one key (EIT_PID, table id      *)
(* 0x4E) are delivered one after another to a fresh collector, each in a     *)
(* unit-start packet with pointer 0 that holds it whole or holds its first   *)
(* 3 bytes, the rest following in a continuation packet.  The last packet of *)
(* a section is filled up with 0xFF stuffing or holds nothing else.          *)

MaxSections == 3

RepeatSections == { <<78, 0, 0>>, <<78, 0, 1, 7>>, <<78, 0, 1, 9>> }

\* the packets that deliver section S
RepeatDeliveries(S) ==
    { <<[pusi |-> TRUE, payload |-> <<0>> \o S, stuff |-> stuff]>> : stuff \in BOOLEAN }
    \cup (IF Len(S) > 3
          THEN { <<[pusi |-> TRUE, payload |-> <<0>> \o SubSeq(S, 1, 3), stuff |-> FALSE],
                   [pusi |-> FALSE, payload |-> SubSeq(S, 4, Len(S)), stuff |-> stuff]>>
                    : stuff \in BOOLEAN }
          ELSE {})

RECURSIVE RepeatPlans(_)
RepeatPlans(n) ==
    IF n = 0 THEN {[sections |-> <<>>, packets |-> <<>>]}
    ELSE UNION {UNION {{[sections |-> Append(plan.sections, S),
                         packets |-> plan.packets \o d] : d \in RepeatDeliveries(S)}
                        : S \in RepeatSections}
                 : plan \in RepeatPlans(n - 1)}

RepeatInit ==
    /\ CollectorFresh
    /\ TimeIdle
    /\ TableIdle
    /\ MainIdle
    /\ solo = <<>>
    /\ emitted = <<>>
    /\ pc = "repeat"
    /\ \E n \in 1..MaxSections : \E plan \in RepeatPlans(n) :
          sect = plan.sections /\ todo = plan.packets

FeedHead ==
    /\ pc = "repeat"
    /\ Feed(EIT_PID, Head(todo).pusi, Head(todo).payload, Head(todo).stuff)
    /\ emitted' = emitted \o out'
    /\ todo' = Tail(todo)
    /\ pc' = IF Len(todo) = 1 THEN "all" ELSE "repeat"
    /\ UNCHANGED <<sect, solo, timeVars, tableVars, mainVars>>

FeedSectionStart == pc = "repeat" /\ Head(todo).pusi /\ FeedHead

FeedSectionRest == pc = "repeat" /\ ~Head(todo).pusi /\ FeedHead

RepeatNext == FeedSectionStart \/ FeedSectionRest

SpecRepeat == RepeatInit /\ [][RepeatNext]_vars

----------------------------------------------------------------------------
(* Claims about repeated use of a buffer *)

----------------------------------------------------------------------------
(* Claims about the names of services *)

\* the service-list packets main has processed that give sid a name that is
\* not blank
NamingPackets(sid) ==
    {i \in 1..Len(scanned) :
        /\ scanned[i].kind = "sdt"
        /\ Processed(i)
        /\ \E n \in 1..Len(scanned[i].names) :
              scanned[i].names[n].sid = sid /\ scanned[i].names[n].name \notin {0, 32}}

\* the name byte the last of them gives to sid
LastNameOf(sid) ==
    LET I == NamingPackets(sid)
        i == CHOOSE x \in I : \A y \in I : y <= x
        N == {n \in 1..Len(scanned[i].names) :
                 scanned[i].names[n].sid = sid /\ scanned[i].names[n].name \notin {0, 32}}
    IN  scanned[i].names[CHOOSE n \in N : \A m \in N : m <= n].name

ServiceIds == {1, 2, 3}

\* C21: at every point of the scan, the name and the provider main holds for a
\* service id are those of the last service-list section processed so far
\* that gave the id a non-empty name: a later name replaces an earlier one,
\* and a later section without the id, or without a name for it, removes
\* nothing.
C21_ServiceNameLastWins ==
    pc = "main" =>
        \A sid \in ServiceIds :
            IF NamingPackets(sid) = {}
            THEN ~dict_has(main_state.services, sid)
            ELSE /\ dict_has(main_state.services, sid)
                 /\ dict_get(main_state.services, sid)
                      = << <<LastNameOf(sid)>>, <<LastNameOf(sid) + 15>> >>

\* service 2 was named B and then C, service 1 was named A and then listed
\* without a name: main holds C for service 2 and still A for service 1
C21_Witness ==
    /\ pc = "main"
    /\ ~main_state.need_tot
    /\ Len(scanned) = 3
    /\ scanned[1] = [kind |-> "sdt", names |-> <<[sid |-> 1, name |-> 65]>>]
    /\ scanned[2] = [kind |-> "sdt", names |-> <<[sid |-> 2, name |-> 66]>>]
    /\ scanned[3].kind = "sdt"
    /\ Len(scanned[3].names) = 3
    /\ dict_get(main_state.services, 2) = << <<67>>, <<82>> >>
    /\ dict_get(main_state.services, 1) = << <<65>>, <<80>> >>
    /\ ~dict_has(main_state.services, 3)

============================================================================
